---- MODULE Spec2Model ----
(***************************************************************************)
(* Verification model of the fruitbasket-legal price pipeline.             *)
(*                                                                         *)
(*   db_manager.py      KamisDatabase: prices / collection_log, UPSERT     *)
(*   kamis_database.py  daily_prices / monthly_prices / yearly_prices      *)
(*   kamis_main.py      run_collect                                        *)
(*   kamis_collector.py, scraper.py   the HTTP fetch functions             *)
(*                                                                         *)
(* A table is the sequence of its rows in rowid order.  The columns id,    *)
(* created_at and collected_at are not modelled: no operation reads them.  *)
(***************************************************************************)
EXTENDS Integers, Sequences, FiniteSets, TLC

VARIABLES
    prices,          \* db_manager: rows of table prices
    collection_log,  \* db_manager: rows of table collection_log
    daily_prices,    \* kamis_database: rows of table daily_prices
    monthly_prices,  \* kamis_database: rows of table monthly_prices
    yearly_prices,   \* kamis_database: rows of table yearly_prices
    conn,            \* kamis_database: the connection the caller holds
    rc_pc,           \* run_collect: where the run stands
    data_dict,       \* run_collect: what collect_all_data returned
    excel_file,      \* run_collect: whether output/kamis_price_data.xlsx exists
    endpoint,        \* the remote API: the responses it will give, and the next one
    ca,              \* collect_all_data: its locals and the futures of its pools
    workbook,        \* excel_manager: the sheets of output/kamis_prices.xlsx on disk
    fb,              \* scraper.fetch_bids: its locals, and the requests it has made
    result,          \* value returned by the most recent call
    call             \* the most recent call: its name and arguments

dbVars == <<prices, collection_log>>
kamisVars == <<daily_prices, monthly_prices, yearly_prices>>
runVars == <<rc_pc, data_dict, excel_file>>
vars == <<prices, collection_log, daily_prices, monthly_prices, yearly_prices,
          conn, rc_pc, data_dict, excel_file, endpoint, ca, workbook, fb,
          result, call>>

(***************************************************************************)
(* Bounds of the model.                                                    *)
(***************************************************************************)
MaxBatch == 2      \* longest list handed to one save call
MaxRows == 2       \* a save call is taken only if the table stays this small
MaxLog == 2        \* number of save_prices calls in one behaviour
MaxChanges == 3    \* a held connection is used while total_changes stays this small
MaxScript == 3     \* number of responses the remote API is scripted to give
MaxLen == 3        \* longest price string given to _parse_price
MaxObs == 5        \* most rows of daily_prices an analysis reads
MaxYears == 3      \* years of yearly_prices an analysis reads
MaxMonths == 2     \* most rows of monthly_prices an analysis reads
MaxTotal == 4      \* largest totalCount the bid provider reports
MaxPage == 2       \* most items on one page of bids

(***************************************************************************)
(* SQL values.  NULL is the SQL NULL of a TEXT column (Python None);       *)
(* NullPrice is the SQL NULL of the INTEGER column price.                  *)
(***************************************************************************)
NULL == "<NULL>"
NullPrice == 0 - 1

Range(s) == {s[i] : i \in 1..Len(s)}

SeqsUpTo(S, n) == UNION {[1..k -> S] : k \in 0..n}

(***************************************************************************)
(* db_manager.py                                                           *)
(***************************************************************************)
Columns ==
    {"date", "category_code", "category_name", "item_code", "item_name",
     "kind_code", "kind_name", "rank", "rank_code", "unit", "price",
     "market_name"}

\* UNIQUE(date, item_code, kind_code, rank_code, market_name)
KeyColumns == {"date", "item_code", "kind_code", "rank_code", "market_name"}

\* date, item_code, item_name are declared NOT NULL
NotNullColumns == {"date", "item_code", "item_name"}

\* ON CONFLICT ... DO UPDATE SET: the columns the update assigns
UpdatedColumns ==
    {"category_name", "item_name", "kind_name", "rank", "unit", "price"}

\* dict.get(key, default)
Get(record, key, default) ==
    IF key \in DOMAIN record THEN record[key] ELSE default

\* The parameter tuple save_prices binds to UPSERT_PRICE: record.get(k, "")
\* for every column but price, record.get("price") for price.
BindPrice(record) ==
    [c \in Columns |->
        IF c = "price" THEN Get(record, c, NullPrice) ELSE Get(record, c, "")]

IsNull(c, v) == IF c = "price" THEN v = NullPrice ELSE v = NULL

\* SQLite's UNIQUE index: two rows collide only if every indexed column is
\* equal and non-NULL (a NULL is distinct from every value, NULL included).
UniqueConflictOn(cols, row, vals) ==
    \A c \in cols : ~IsNull(c, vals[c]) /\ row[c] = vals[c]

UniqueConflict(row, vals) == UniqueConflictOn(KeyColumns, row, vals)

\* NOT NULL constraint failure: sqlite3.IntegrityError, which no ON CONFLICT
\* clause intercepts.
NotNullViolation(vals) == \E c \in NotNullColumns : IsNull(c, vals[c])

\* One execution of UPSERT_PRICE on table tbl.  rowcount is 1 for the insert
\* and for the DO UPDATE alike.
UPSERT_PRICE(tbl, vals) ==
    IF NotNullViolation(vals)
    THEN [tbl |-> tbl, raised |-> TRUE, rowcount |-> 0]
    ELSE IF \E i \in 1..Len(tbl) : UniqueConflict(tbl[i], vals)
    THEN LET i == CHOOSE j \in 1..Len(tbl) : UniqueConflict(tbl[j], vals)
         IN  [tbl |-> [tbl EXCEPT ![i] =
                        [c \in Columns |->
                            IF c \in UpdatedColumns THEN vals[c] ELSE tbl[i][c]]],
              raised |-> FALSE, rowcount |-> 1]
    ELSE [tbl |-> Append(tbl, vals), raised |-> FALSE, rowcount |-> 1]

\* A loop body that swallows a storage error without counting it.
SavePricesStep_ErrorUncounted(st, record) ==
    LET x == UPSERT_PRICE(st.tbl, BindPrice(record))
    IN  IF x.raised
        THEN st
        ELSE [st EXCEPT !.tbl = x.tbl, !.inserted = @ + 1]

\* The body of the for loop of save_prices for one record.
SavePricesStep(st, record) ==
    LET x == UPSERT_PRICE(st.tbl, BindPrice(record))
    IN  IF x.raised
        THEN [st EXCEPT !.errors = @ + 1]
        ELSE IF x.rowcount > 0
        THEN [st EXCEPT !.tbl = x.tbl, !.inserted = @ + 1]
        ELSE [st EXCEPT !.tbl = x.tbl, !.updated = @ + 1]

RECURSIVE SavePricesLoop(_, _)
SavePricesLoop(st, price_data) ==
    IF price_data = <<>>
    THEN st
    ELSE SavePricesLoop(SavePricesStep(st, Head(price_data)), Tail(price_data))

\* LogRow with the failed records left in the skipped count.
LogRow_SkippedIgnoresErrors(total, inserted, errors) ==
    [total_fetched |-> total,
     new_inserted |-> inserted,
     duplicates_skipped |-> total - inserted,
     errors |-> errors,
     status |-> IF errors = 0 THEN "success" ELSE "partial_error"]

\* LogRow with the status taken from the skipped count instead of the errors.
LogRow_StatusFromSkipped(total, inserted, errors) ==
    [total_fetched |-> total,
     new_inserted |-> inserted,
     duplicates_skipped |-> total - inserted - errors,
     errors |-> errors,
     status |-> IF total - inserted - errors = 0 THEN "success" ELSE "partial_error"]

\* The row save_prices hands to INSERT_LOG.
LogRow(total, inserted, errors) ==
    [total_fetched |-> total,
     new_inserted |-> inserted,
     duplicates_skipped |-> total - inserted - errors,
     errors |-> errors,
     status |-> IF errors = 0 THEN "success" ELSE "partial_error"]

\* KamisDatabase.save_prices(price_data)
save_prices(price_data) ==
    /\ Len(collection_log) < MaxLog
    /\ \E st \in {SavePricesLoop(
                    [tbl |-> prices, inserted |-> 0, updated |-> 0, errors |-> 0],
                    price_data)} :
           /\ Len(st.tbl) <= MaxRows
           /\ prices' = st.tbl
           /\ collection_log' =
                 Append(collection_log,
                        LogRow(Len(price_data), st.inserted, st.errors))
           /\ result' = [total |-> Len(price_data), inserted |-> st.inserted,
                         updated |-> st.updated, errors |-> st.errors]
    /\ call' = [op |-> "save_prices", arg |-> price_data]
    /\ UNCHANGED <<kamisVars, conn, runVars, endpoint, ca, workbook, fb>>

(***************************************************************************)
(* Inputs: normalized price records.  Two descriptions of one observation  *)
(* (PayloadA, PayloadB: PayloadB has no price), the same observation with  *)
(* kind_code None, and a record with item_name None and no kind_code key.  *)
(***************************************************************************)
PayloadA ==
    [date |-> "2025-01-15", category_code |-> "400", category_name |-> "fruit",
     item_code |-> "411", item_name |-> "apple", kind_name |-> "fuji",
     rank |-> "high", rank_code |-> "04", unit |-> "10 ea", price |-> 25000,
     market_name |-> "Seoul"]

PayloadB ==
    [date |-> "2025-01-15", category_code |-> "600", category_name |-> "fruits",
     item_code |-> "411", item_name |-> "apples", kind_name |-> "Fuji",
     rank |-> "top", rank_code |-> "04", unit |-> "1 kg", price |-> NullPrice,
     market_name |-> "Seoul"]

PayloadNoName == [PayloadA EXCEPT !.item_name = NULL]

PriceRecords ==
    {PayloadA @@ ("kind_code" :> "01"),
     PayloadB @@ ("kind_code" :> "01"),
     PayloadA @@ ("kind_code" :> NULL),
     PayloadNoName}

PriceBatches == SeqsUpTo(PriceRecords, MaxBatch)

\* Records with and without a price, of a key with kind_code "01" and of the
\* same key with kind_code None.
RepricedRecords ==
    {PayloadA @@ ("kind_code" :> "01"),
     PayloadB @@ ("kind_code" :> "01"),
     PayloadA @@ ("kind_code" :> NULL),
     PayloadB @@ ("kind_code" :> NULL)}

RepricedBatches == SeqsUpTo(RepricedRecords, MaxBatch)

(***************************************************************************)
(* kamis_database.py                                                       *)
(*                                                                         *)
(* daily_prices keeps, of its value columns, product_name and dpr1; the    *)
(* others (category, unit, day1..dpr4, direction, value) are bound from    *)
(* the frame in the same way and take no part in any constraint.           *)
(***************************************************************************)
None == [none |-> TRUE]

\* A sqlite3 connection as far as the code reads it: total_changes.
Closed == [open |-> FALSE, total_changes |-> 0]

\* get_connection(): a new connection has changed no row yet.
NewConnection == [open |-> TRUE, total_changes |-> 0]

\* UNIQUE(productno, lastest_day, item_name, product_cls_code)
DailyKey == {"productno", "lastest_day", "item_name", "product_cls_code"}

\* UNIQUE(productno, yyyymm)
MonthlyKey == {"productno", "yyyymm"}

\* UNIQUE(productno, yyyy)
YearlyKey == {"productno", "yyyy"}

\* The parameters save_daily binds: row.get(column, ""); the frame column
\* productName goes to the table column product_name.
BindDaily(row) ==
    [product_cls_code |-> Get(row, "product_cls_code", ""),
     productno |-> Get(row, "productno", ""),
     lastest_day |-> Get(row, "lastest_day", ""),
     product_name |-> Get(row, "productName", ""),
     item_name |-> Get(row, "item_name", ""),
     dpr1 |-> Get(row, "dpr1", "")]

BindMonthly(row) ==
    [productno |-> Get(row, "productno", ""),
     yyyymm |-> Get(row, "yyyymm", ""),
     monthly_max |-> Get(row, "monthly_max", ""),
     monthly_min |-> Get(row, "monthly_min", "")]

BindYearly(row) ==
    [productno |-> Get(row, "productno", ""),
     yyyy |-> Get(row, "yyyy", ""),
     yearly_max |-> Get(row, "yearly_max", ""),
     yearly_min |-> Get(row, "yearly_min", "")]

SelectSeq2(s, Keep(_)) ==
    LET F[i \in 0..Len(s)] ==
            IF i = 0 THEN <<>>
            ELSE IF Keep(s[i]) THEN Append(F[i - 1], s[i]) ELSE F[i - 1]
    IN  F[Len(s)]

\* INSERT OR IGNORE: a row that collides with a stored one is dropped.
\* changes is what the statement adds to the connection's total_changes.
InsertOrIgnore(tbl, key, vals) ==
    IF \E i \in 1..Len(tbl) : UniqueConflictOn(key, tbl[i], vals)
    THEN [tbl |-> tbl, changes |-> 0]
    ELSE [tbl |-> Append(tbl, vals), changes |-> 1]

\* InsertOrReplace behaving as INSERT OR IGNORE.
InsertOrReplace_Ignore(tbl, key, vals) == InsertOrIgnore(tbl, key, vals)

\* InsertOrReplace without the UNIQUE index: a plain INSERT.
InsertOrReplace_NoIndex(tbl, key, vals) ==
    [tbl |-> Append(tbl, vals), changes |-> 1]

\* INSERT OR REPLACE: the stored rows the new one collides with are deleted
\* and the new row is inserted (with a new rowid, so at the end).
InsertOrReplace(tbl, key, vals) ==
    LET Keep(row) == ~UniqueConflictOn(key, row, vals)
    IN  [tbl |-> Append(SelectSeq2(tbl, Keep), vals), changes |-> 1]

\* The loop body of save_daily: `if conn.total_changes: inserted += 1`.
SaveDailyStep(st, row) ==
    LET x == InsertOrIgnore(st.tbl, DailyKey, BindDaily(row))
        tc == st.tc + x.changes
    IN  [tbl |-> x.tbl, tc |-> tc,
         inserted |-> IF tc # 0 THEN st.inserted + 1 ELSE st.inserted]

\* The loop body of save_monthly: inserted += 1 after every execute.
SaveMonthlyStep(st, row) ==
    LET x == InsertOrReplace(st.tbl, MonthlyKey, BindMonthly(row))
    IN  [tbl |-> x.tbl, tc |-> st.tc + x.changes, inserted |-> st.inserted + 1]

\* The loop body of save_yearly.
SaveYearlyStep(st, row) ==
    LET x == InsertOrReplace(st.tbl, YearlyKey, BindYearly(row))
    IN  [tbl |-> x.tbl, tc |-> st.tc + x.changes, inserted |-> st.inserted + 1]

RECURSIVE SaveLoop(_, _, _)
SaveLoop(Step(_, _), st, df) ==
    IF df = <<>>
    THEN st
    ELSE SaveLoop(Step, Step(st, Head(df)), Tail(df))

\* save_daily(df, conn) as a function of the table and of the connection's
\* total_changes: `if df.empty: return 0`, else the loop.
SaveDaily(tbl, tc, df) ==
    IF df = <<>>
    THEN [tbl |-> tbl, tc |-> tc, inserted |-> 0]
    ELSE SaveLoop(SaveDailyStep, [tbl |-> tbl, tc |-> tc, inserted |-> 0], df)

SaveMonthly(tbl, tc, df) ==
    IF df = <<>>
    THEN [tbl |-> tbl, tc |-> tc, inserted |-> 0]
    ELSE SaveLoop(SaveMonthlyStep, [tbl |-> tbl, tc |-> tc, inserted |-> 0], df)

SaveYearly(tbl, tc, df) ==
    IF df = <<>>
    THEN [tbl |-> tbl, tc |-> tc, inserted |-> 0]
    ELSE SaveLoop(SaveYearlyStep, [tbl |-> tbl, tc |-> tc, inserted |-> 0], df)

\* conn=None makes the function open a connection of its own and close it;
\* otherwise it works on the connection the caller holds.
ConnBefore(own) == IF own THEN NewConnection ELSE conn

ConnAfter(own, tc) == IF own THEN conn ELSE [conn EXCEPT !.total_changes = tc]

get_connection ==
    /\ ~conn.open
    /\ conn' = NewConnection
    /\ call' = [op |-> "get_connection", arg |-> <<>>]
    /\ UNCHANGED <<dbVars, kamisVars, runVars, result, endpoint, ca, workbook, fb>>

close ==
    /\ conn.open
    /\ conn' = Closed
    /\ call' = [op |-> "close", arg |-> <<>>]
    /\ UNCHANGED <<dbVars, kamisVars, runVars, result, endpoint, ca, workbook, fb>>

save_daily(df, own) ==
    /\ own \/ conn.open
    /\ \E st \in {SaveDaily(daily_prices, ConnBefore(own).total_changes, df)} :
           /\ st.tc <= MaxChanges
           /\ daily_prices' = st.tbl
           /\ conn' = ConnAfter(own, st.tc)
           /\ result' = st.inserted
    /\ call' = [op |-> "save_daily", arg |-> df, own |-> own]
    /\ UNCHANGED <<dbVars, monthly_prices, yearly_prices, runVars, endpoint, ca, workbook, fb>>

save_monthly(df, own) ==
    /\ own \/ conn.open
    /\ \E st \in {SaveMonthly(monthly_prices, ConnBefore(own).total_changes, df)} :
           /\ st.tc <= MaxChanges
           /\ monthly_prices' = st.tbl
           /\ conn' = ConnAfter(own, st.tc)
           /\ result' = st.inserted
    /\ call' = [op |-> "save_monthly", arg |-> df, own |-> own]
    /\ UNCHANGED <<dbVars, daily_prices, yearly_prices, runVars, endpoint, ca, workbook, fb>>

save_yearly(df, own) ==
    /\ own \/ conn.open
    /\ \E st \in {SaveYearly(yearly_prices, ConnBefore(own).total_changes, df)} :
           /\ st.tc <= MaxChanges
           /\ yearly_prices' = st.tbl
           /\ conn' = ConnAfter(own, st.tc)
           /\ result' = st.inserted
    /\ call' = [op |-> "save_yearly", arg |-> df, own |-> own]
    /\ UNCHANGED <<dbVars, daily_prices, monthly_prices, runVars, endpoint, ca, workbook, fb>>

(***************************************************************************)
(* Inputs: the frames the collector builds.  Every cell is the text of an  *)
(* XML element (findtext(tag, "")), so no cell is NULL.                    *)
(***************************************************************************)
Products == {"P1", "P2"}

DailyQuotes == {"100", "200"}

DailyRow(p, q) ==
    [product_cls_code |-> "01", productno |-> p, lastest_day |-> "2025-01-15",
     productName |-> "apple", item_name |-> "apple/fuji", dpr1 |-> q]

DailyRows == {DailyRow(p, q) : p \in Products, q \in DailyQuotes}

\* <<max, min>> quotes a trend request may return for a product.
TrendQuotes(p) ==
    IF p = "P1" THEN {<<"10", "5">>, <<"20", "8">>} ELSE {<<"10", "5">>}

MonthlyRow(p, q) ==
    [productno |-> p, yyyymm |-> "202501", monthly_max |-> q[1], monthly_min |-> q[2]]

YearlyRow(p, q) ==
    [productno |-> p, yyyy |-> "2025", yearly_max |-> q[1], yearly_min |-> q[2]]

MonthlyRows == UNION {{MonthlyRow(p, q) : q \in TrendQuotes(p)} : p \in Products}

YearlyRows == UNION {{YearlyRow(p, q) : q \in TrendQuotes(p)} : p \in Products}

DailyFrames == SeqsUpTo(DailyRows, MaxBatch)

MonthlyFrames == SeqsUpTo(MonthlyRows, MaxBatch)

YearlyFrames == SeqsUpTo(YearlyRows, MaxBatch)

(***************************************************************************)
(* kamis_main.run_collect.  collect_all_data is one step here: the         *)
(* discovery list, and for every distinct product of it the answer of the  *)
(* monthly and of the yearly request (no rows, or one row).                *)
(***************************************************************************)
DiscoveredRows == {DailyRow(p, "100") : p \in Products}

DiscoveredFrames == SeqsUpTo(DiscoveredRows, MaxBatch)

\* products = list({p[0]: p for p in products}.values()): the distinct
\* productno values in the order of their first occurrence.
RECURSIVE Distinct(_)
Distinct(s) ==
    IF s = <<>>
    THEN <<>>
    ELSE LET init == Distinct(SubSeq(s, 1, Len(s) - 1))
             x == s[Len(s)]
         IN  IF x \in Range(init) THEN init ELSE Append(init, x)

\* A product list that keeps repeated productno values.
ProductList_NoDedup(daily_data) ==
    SelectSeq2([i \in 1..Len(daily_data) |-> daily_data[i].productno],
               LAMBDA pno : pno # "")

ProductList(daily_data) ==
    Distinct(SelectSeq2([i \in 1..Len(daily_data) |-> daily_data[i].productno],
                        LAMBDA pno : pno # ""))

RECURSIVE Flatten(_)
Flatten(ss) == IF ss = <<>> THEN <<>> ELSE Head(ss) \o Flatten(Tail(ss))

MonthlyAnswers(p) == {<<>>, <<MonthlyRow(p, <<"10", "5">>)>>}

YearlyAnswers(p) == {<<>>, <<YearlyRow(p, <<"10", "5">>)>>}

\* collect_all_data(): None when the discovery list is empty, else the three
\* frames.
rc_collect ==
    /\ rc_pc \in {"idle", "done"}
    /\ \E daily \in DiscoveredFrames :
        IF daily = <<>>
        THEN /\ data_dict' = None
             /\ rc_pc' = "done"
        ELSE LET products == ProductList(daily)
                 n == Len(products)
             IN  \E m \in [1..n -> UNION {MonthlyAnswers(p) : p \in Products}],
                    y \in [1..n -> UNION {YearlyAnswers(p) : p \in Products}] :
                    /\ \A i \in 1..n : /\ m[i] \in MonthlyAnswers(products[i])
                                       /\ y[i] \in YearlyAnswers(products[i])
                    /\ data_dict' = [daily |-> daily, monthly |-> Flatten(m),
                                     yearly |-> Flatten(y)]
                    /\ rc_pc' = "collected"
    /\ call' = [op |-> "collect_all_data", arg |-> <<>>]
    /\ UNCHANGED <<dbVars, kamisVars, conn, excel_file, result, endpoint, ca, workbook, fb>>

\* save_all(data_dict, conn): init_db, then the three saves on one connection.
SaveAll(tc, dd) ==
    LET d == SaveDaily(daily_prices, tc, dd.daily)
        m == SaveMonthly(monthly_prices, d.tc, dd.monthly)
        y == SaveYearly(yearly_prices, m.tc, dd.yearly)
    IN  [daily |-> d, monthly |-> m, yearly |-> y]

\* conn = db.get_connection(); db.init_db(conn); db.save_all(data_dict, conn);
\* db.get_db_stats(conn); conn.close()
rc_save_all ==
    /\ rc_pc = "collected"
    /\ \E r \in {SaveAll(NewConnection.total_changes, data_dict)} :
           /\ daily_prices' = r.daily.tbl
           /\ monthly_prices' = r.monthly.tbl
           /\ yearly_prices' = r.yearly.tbl
           /\ result' = [daily |-> r.daily.inserted,
                         monthly |-> r.monthly.inserted,
                         yearly |-> r.yearly.inserted]
    /\ rc_pc' = "saved"
    /\ call' = [op |-> "save_all", arg |-> <<>>]
    /\ UNCHANGED <<dbVars, conn, data_dict, excel_file, endpoint, ca, workbook, fb>>

\* collector.save_to_excel(data_dict, cumulative=True): the workbook is
\* written (its cells are not modelled); run_collect returns.
rc_save_to_excel ==
    /\ rc_pc = "saved"
    /\ excel_file' = "written"
    /\ rc_pc' = "done"
    /\ data_dict' = None
    /\ call' = [op |-> "save_to_excel", arg |-> <<>>]
    /\ UNCHANGED <<dbVars, kamisVars, conn, result, endpoint, ca, workbook, fb>>

(***************************************************************************)
(* kamis_collector.py and scraper.py: the fetch functions.                 *)
(*                                                                         *)
(* endpoint.script is what the remote API answers, request after request;  *)
(* endpoint.next is the position of the answer to the next request.  A     *)
(* response is [status, format, resultCode, items, totalCount]; NoResponse *)
(* stands for requests.get raising (timeout, connection failure), which is *)
(* also what a request past the end of the script gets.                    *)
(***************************************************************************)
NoResponse ==
    [status |-> "none", format |-> "", resultCode |-> NULL, items |-> <<>>,
     totalCount |-> 0]

HttpError(status) ==
    [status |-> status, format |-> "html", resultCode |-> NULL, items |-> <<>>,
     totalCount |-> 0]

\* XML document of the KAMIS API; resultCode NULL: the document has no
\* resultCode element.
KamisXml(code, items) ==
    [status |-> "200", format |-> "xml", resultCode |-> code, items |-> items,
     totalCount |-> 0]

\* JSON document of the G2B API.
BidsJson(code, items, total) ==
    [status |-> "200", format |-> "json", resultCode |-> code, items |-> items,
     totalCount |-> total]

\* requests.get(...): the response, and the endpoint after the request.
HttpGet(ep) ==
    [response |-> IF ep.next <= Len(ep.script) THEN ep.script[ep.next]
                  ELSE NoResponse,
     endpoint |-> [ep EXCEPT !.next = @ + 1]]

\* requests.get raised, or response.raise_for_status() raises (4xx, 5xx).
RequestFailed(response) == response.status # "200"

\* A check that takes every answer for a success.
check_kamis_result_AlwaysTrue(response) == TRUE

\* check_kamis_result(root): False only for a resultCode other than "0000";
\* a missing or empty resultCode passes.
check_kamis_result(response) ==
    ~(response.resultCode \notin {NULL, ""} /\ response.resultCode # "0000")

\* The dict get_daily_sales_list builds from one <item>: findtext(tag, "").
DailyItem(item) ==
    [product_cls_code |-> Get(item, "product_cls_code", ""),
     productno |-> Get(item, "productno", ""),
     lastest_day |-> Get(item, "lastest_day", ""),
     productName |-> Get(item, "productName", ""),
     item_name |-> Get(item, "item_name", ""),
     dpr1 |-> Get(item, "dpr1", "")]

\* The dict get_monthly_price_trend builds from one <item>.
MonthlyItem(productno, item) ==
    LET yyyy == Get(item, "yyyy", "")
        mm == Get(item, "mm", "")
    IN  [productno |-> productno,
         yyyymm |-> IF yyyy # "" /\ mm # "" THEN yyyy \o mm ELSE "",
         monthly_max |-> Get(item, "max", ""),
         monthly_min |-> Get(item, "min", "")]

\* The dict get_yearly_price_trend builds from one <item>.
YearlyItem(productno, item) ==
    [productno |-> productno,
     yyyy |-> Get(item, "yyyy", ""),
     yearly_max |-> Get(item, "max", ""),
     yearly_min |-> Get(item, "min", "")]

\* The body of the three KAMIS functions after the request: [] on a failed
\* request, an unparseable body or a rejected resultCode, else one dict per
\* <item>.
KamisData(response, Item(_)) ==
    IF RequestFailed(response) THEN <<>>
    ELSE IF response.format # "xml" THEN <<>>
    ELSE IF ~check_kamis_result(response) THEN <<>>
    ELSE [i \in 1..Len(response.items) |-> Item(response.items[i])]

\* A get_daily_sales_list that asks once more after a failed request.
DailySalesList_Retry(ep) ==
    LET g == HttpGet(ep)
        h == HttpGet(g.endpoint)
    IN  IF RequestFailed(g.response)
        THEN [data |-> KamisData(h.response, DailyItem), endpoint |-> h.endpoint]
        ELSE [data |-> KamisData(g.response, DailyItem), endpoint |-> g.endpoint]

\* get_daily_sales_list(): one request, whatever the answer.
DailySalesList(ep) ==
    LET g == HttpGet(ep)
    IN  [data |-> KamisData(g.response, DailyItem), endpoint |-> g.endpoint]

\* get_monthly_price_trend(productno): one request, whatever the answer.
MonthlyPriceTrend(ep, productno) ==
    LET g == HttpGet(ep)
        Item(item) == MonthlyItem(productno, item)
    IN  [data |-> KamisData(g.response, Item), endpoint |-> g.endpoint]

\* get_yearly_price_trend(productno): one request, whatever the answer.
YearlyPriceTrend(ep, productno) ==
    LET g == HttpGet(ep)
        Item(item) == YearlyItem(productno, item)
    IN  [data |-> KamisData(g.response, Item), endpoint |-> g.endpoint]

\* The while loop of fetch_bids from page `page` on: it breaks on a failed
\* request, an unparseable body, a resultCode other than "00" or an empty
\* page, and after the page that brings len(all_items) up to totalCount.
RECURSIVE FetchBidsLoop(_, _, _)
FetchBidsLoop(ep, all_items, page) ==
    LET g == HttpGet(ep)
        r == g.response
        done == [data |-> all_items, endpoint |-> g.endpoint, page |-> page]
    IN  IF RequestFailed(r) THEN done
        ELSE IF r.format # "json" THEN done
        ELSE IF r.resultCode # "00" THEN done
        ELSE IF r.items = <<>> THEN done
        ELSE IF Len(all_items \o r.items) >= r.totalCount
        THEN [done EXCEPT !.data = all_items \o r.items]
        ELSE FetchBidsLoop(g.endpoint, all_items \o r.items, page + 1)

\* A fetch function is called while the script has an answer left.
CanCall == endpoint.next <= Len(endpoint.script)

get_daily_sales_list ==
    /\ CanCall
    /\ \E r \in {DailySalesList(endpoint)} :
        /\ result' = r.data
        /\ endpoint' = r.endpoint
    /\ call' = [op |-> "get_daily_sales_list", arg |-> <<>>, first |-> endpoint.next]
    /\ UNCHANGED <<dbVars, kamisVars, conn, runVars, ca, workbook, fb>>

get_monthly_price_trend(productno) ==
    /\ CanCall
    /\ \E r \in {MonthlyPriceTrend(endpoint, productno)} :
        /\ result' = r.data
        /\ endpoint' = r.endpoint
    /\ call' = [op |-> "get_monthly_price_trend", arg |-> productno,
                first |-> endpoint.next]
    /\ UNCHANGED <<dbVars, kamisVars, conn, runVars, ca, workbook, fb>>

get_yearly_price_trend(productno) ==
    /\ CanCall
    /\ \E r \in {YearlyPriceTrend(endpoint, productno)} :
        /\ result' = r.data
        /\ endpoint' = r.endpoint
    /\ call' = [op |-> "get_yearly_price_trend", arg |-> productno,
                first |-> endpoint.next]
    /\ UNCHANGED <<dbVars, kamisVars, conn, runVars, ca, workbook, fb>>

fetch_bids ==
    /\ CanCall
    /\ \E r \in {FetchBidsLoop(endpoint, <<>>, 1)} :
        /\ result' = r.data
        /\ endpoint' = r.endpoint
    /\ call' = [op |-> "fetch_bids", arg |-> <<>>, first |-> endpoint.next]
    /\ UNCHANGED <<dbVars, kamisVars, conn, runVars, ca, workbook, fb>>

(***************************************************************************)
(* Inputs: what the remote API may answer.                                 *)
(***************************************************************************)
DailyXmlItem ==
    [product_cls_code |-> "01", productno |-> "P1", lastest_day |-> "2025-01-15",
     productName |-> "apple", item_name |-> "apple/fuji", dpr1 |-> "100"]

TrendXmlItem == [yyyy |-> "2025", mm |-> "01", max |-> "10", min |-> "5"]

Responses ==
    {NoResponse,
     HttpError("500"),
     HttpError("404"),
     KamisXml("0000", <<DailyXmlItem>>),
     KamisXml(NULL, <<TrendXmlItem>>),
     KamisXml("001", <<>>),
     BidsJson("00", <<"bid-1">>, 2),
     BidsJson("00", <<"bid-2">>, 2)}

Scripts == SeqsUpTo(Responses, MaxScript)

\* The <resultCode> values of an answer: absent, empty, the success code and
\* four others; each answer carries one item.
ResultCodes == {NULL, "", "0000", "001", "200", "900", "0"}

CodedResponses == {KamisXml(code, <<TrendXmlItem>>) : code \in ResultCodes}

CodedScripts == SeqsUpTo(CodedResponses, MaxScript)

(***************************************************************************)
(* kamis_collector.collect_all_data, step by step.  The main thread runs   *)
(* the discovery call, then for the monthly and for the yearly pool:       *)
(* submits one task per product, takes the futures as they complete and    *)
(* extends the pool's list.  A worker thread runs one task: the request,   *)
(* then the return of the fetch function.  ca[k], k "monthly" or "yearly", *)
(* holds the futures, done, total and monthly_data_all / yearly_data_all.  *)
(* The remote API answers each request as it likes; endpoint.script keeps  *)
(* the answers given in this run.                                          *)
(***************************************************************************)
Pools == {"monthly", "yearly"}

EmptyPool == [futures |-> <<>>, done |-> 0, total |-> 0, data_all |-> <<>>]

NoRun ==
    [daily_data |-> <<>>, products |-> <<>>, monthly |-> EmptyPool,
     yearly |-> EmptyPool]

\* executor.submit(func, pno): a future, not yet picked up by a worker.
Submitted(pno) == [pno |-> pno, state |-> "pending", result |-> <<>>, ok |-> FALSE]

\* The endpoint once it has been told to answer r to the next request.
Answering(ep, r) == [ep EXCEPT !.script = Append(@, r)]

\* The response is one the KAMIS functions build records from.
Usable(r) == ~RequestFailed(r) /\ r.format = "xml" /\ check_kamis_result(r)

DiscoveryItem(p) == [DailyXmlItem EXCEPT !.productno = p]

\* <item> elements of a discovery document: the products, and an item
\* without productno element.
DiscoveryItems == {DiscoveryItem(p) : p \in Products \cup {""}}

DiscoveryResponses ==
    {NoResponse} \cup {KamisXml("0000", items) : items \in SeqsUpTo(DiscoveryItems, MaxBatch)}

TrendXmlItem2 == [yyyy |-> "2025", mm |-> "02", max |-> "20", min |-> "8"]

TrendResponses == {HttpError("500"), KamisXml("0000", <<TrendXmlItem, TrendXmlItem2>>)}

\* A collect_all_data that goes on with an empty discovery list.
AfterDiscovery_NoAbort(daily_data) ==
    IF ProductList(daily_data) = <<>> THEN "frames" ELSE "submit_monthly"

\* Where the main thread goes after the discovery call: `if not daily_data:
\* return None` ends run_collect; without products both pools are skipped.
AfterDiscovery(daily_data) ==
    IF daily_data = <<>> THEN "done"
    ELSE IF ProductList(daily_data) = <<>> THEN "frames"
    ELSE "submit_monthly"

\* daily_data = get_daily_sales_list(...); return None when it is empty;
\* products = the distinct non-empty productno values.
ca_discover ==
    /\ rc_pc = "idle"
    /\ \E r \in DiscoveryResponses :
        \E d \in {DailySalesList(Answering(endpoint, r))} :
            /\ endpoint' = d.endpoint
            /\ ca' = [NoRun EXCEPT !.daily_data = d.data,
                                   !.products = ProductList(d.data)]
            /\ rc_pc' = AfterDiscovery(d.data)
            /\ call' = IF d.data = <<>>
                       THEN [op |-> "collect_all_data", arg |-> "None"]
                       ELSE [op |-> "get_daily_sales_list", arg |-> <<>>]
    /\ UNCHANGED <<dbVars, kamisVars, conn, data_dict, excel_file, result, workbook, fb>>

\* futures = {executor.submit(func, pno): (pno, name) for pno, name in
\* products}: the submission of the next product.
ca_submit(k) ==
    /\ rc_pc = "submit_" \o k
    /\ Len(ca[k].futures) < Len(ca.products)
    /\ ca' = [ca EXCEPT ![k].futures =
                            Append(@, Submitted(ca.products[Len(@) + 1]))]
    /\ call' = [op |-> "submit", arg |-> k]
    /\ UNCHANGED <<dbVars, kamisVars, conn, runVars, endpoint, result, workbook, fb>>

\* done = 0; total = len(futures); the main thread enters as_completed.
ca_submitted(k) ==
    /\ rc_pc = "submit_" \o k
    /\ Len(ca[k].futures) = Len(ca.products)
    /\ ca' = [ca EXCEPT ![k].done = 0, ![k].total = Len(ca[k].futures)]
    /\ rc_pc' = "await_" \o k
    /\ call' = [op |-> "submitted", arg |-> k]
    /\ UNCHANGED <<dbVars, kamisVars, conn, data_dict, excel_file, endpoint, result, workbook, fb>>

\* A worker thread picks the task up and makes its request.
task_request(k, i) ==
    /\ i \in 1..Len(ca[k].futures)
    /\ ca[k].futures[i].state = "pending"
    /\ \E r \in TrendResponses :
        \E t \in {IF k = "monthly"
                  THEN MonthlyPriceTrend(Answering(endpoint, r), ca[k].futures[i].pno)
                  ELSE YearlyPriceTrend(Answering(endpoint, r), ca[k].futures[i].pno)} :
            /\ endpoint' = t.endpoint
            /\ ca' = [ca EXCEPT ![k].futures[i] =
                        [@ EXCEPT !.state = "running", !.result = t.data,
                                  !.ok = Usable(r)]]
    /\ call' = [op |-> "task_request", arg |-> k]
    /\ UNCHANGED <<dbVars, kamisVars, conn, runVars, result, workbook, fb>>

\* The fetch function returns in the worker: the future is done.
task_return(k, i) ==
    /\ i \in 1..Len(ca[k].futures)
    /\ ca[k].futures[i].state = "running"
    /\ ca' = [ca EXCEPT ![k].futures[i].state = "finished"]
    /\ call' = [op |-> "task_return", arg |-> k]
    /\ UNCHANGED <<dbVars, kamisVars, conn, runVars, endpoint, result, workbook, fb>>

\* An extend that lets the records of two tasks interleave.
Extend_Interleaved(data_all, records) ==
    IF records = <<>> THEN data_all
    ELSE <<Head(records)>> \o data_all \o Tail(records)

\* monthly_data_all.extend(future.result()), in the main thread.
Extend(data_all, records) == data_all \o records

\* A progress counter that counts the tasks that brought records only.
DoneAfter_OnlySuccess(done, future) == IF future.ok THEN done + 1 ELSE done

\* finally: done += 1, whatever future.result() did.
DoneAfter(done, future) == done + 1

\* One turn of `for future in as_completed(futures)`:
\* data_all.extend(future.result()); finally: done += 1.
ca_as_completed(k) ==
    /\ rc_pc = "await_" \o k
    /\ \E i \in 1..Len(ca[k].futures) :
        /\ ca[k].futures[i].state = "finished"
        /\ ca' = [ca EXCEPT ![k].futures[i].state = "consumed",
                            ![k].data_all = Extend(@, ca[k].futures[i].result),
                            ![k].done = DoneAfter(@, ca[k].futures[i])]
    /\ call' = [op |-> "as_completed", arg |-> k]
    /\ UNCHANGED <<dbVars, kamisVars, conn, runVars, endpoint, result, workbook, fb>>

\* An as_completed that ends after the first future.
AsCompletedExhausted_AfterFirst(k) == ca[k].done >= 1

\* as_completed(futures) has yielded every future.
AsCompletedExhausted(k) ==
    \A i \in 1..Len(ca[k].futures) : ca[k].futures[i].state = "consumed"

\* as_completed is exhausted and the with block of the executor is left.
ca_pool_exit(k) ==
    /\ rc_pc = "await_" \o k
    /\ AsCompletedExhausted(k)
    /\ rc_pc' = IF k = "monthly" THEN "submit_yearly" ELSE "frames"
    /\ call' = [op |-> "pool_exit", arg |-> k]
    /\ UNCHANGED <<dbVars, kamisVars, conn, data_dict, excel_file, endpoint, ca, result, workbook, fb>>

\* return {"daily": df_daily, "monthly": df_monthly, "yearly": df_yearly}
ca_return ==
    /\ rc_pc = "frames"
    /\ data_dict' = [daily |-> ca.daily_data, monthly |-> ca.monthly.data_all,
                     yearly |-> ca.yearly.data_all]
    /\ rc_pc' = "collected"
    /\ call' = [op |-> "collect_all_data", arg |-> "frames"]
    /\ UNCHANGED <<dbVars, kamisVars, conn, excel_file, endpoint, ca, result, workbook, fb>>

(***************************************************************************)
(* db_manager.KamisDatabase.get_latest_prices                              *)
(***************************************************************************)
\* The texts stored in date, category_code and item_code, in the order of
\* SQLite's BINARY collation.
Texts == <<"2025-01-14", "2025-01-15", "400", "411", "600">>

TextRank(t) == CHOOSE i \in 1..Len(Texts) : Texts[i] = t

VariantColumns == {"item_code", "kind_code", "rank_code", "market_name"}

\* SQL `a = b` as a join condition: true only for equal non-NULL values.
SqlEq(a, b) == a # NULL /\ b # NULL /\ a = b

\* The subquery `latest`: one row per group of the rows WHERE price IS NOT
\* NULL, grouped by the variant columns (GROUP BY puts NULLs in one group),
\* with max_date = MAX(date).
LatestGroups(tbl) ==
    LET priced == {i \in 1..Len(tbl) : tbl[i].price # NullPrice}
        Variant(row) == [c \in VariantColumns |-> row[c]]
    IN  {[variant |-> v,
          max_date |-> LET ds == {tbl[i].date : i \in {j \in priced : Variant(tbl[j]) = v}}
                       IN  CHOOSE d \in ds : \A e \in ds : TextRank(e) <= TextRank(d)]
         : v \in {Variant(tbl[i]) : i \in priced}}

\* The ON condition of the INNER JOIN.
JoinsLatest(row, g) ==
    /\ \A c \in VariantColumns : SqlEq(row[c], g.variant[c])
    /\ SqlEq(row.date, g.max_date)

\* ORDER BY p.category_code, p.item_code
OrderedBefore(a, b) ==
    \/ TextRank(a.category_code) < TextRank(b.category_code)
    \/ /\ a.category_code = b.category_code
       /\ TextRank(a.item_code) < TextRank(b.item_code)

RECURSIVE OrderByCategoryItem(_)
OrderByCategoryItem(rows) ==
    IF rows = <<>>
    THEN <<>>
    ELSE LET first == CHOOSE i \in 1..Len(rows) :
                         /\ \A j \in 1..Len(rows) : ~OrderedBefore(rows[j], rows[i])
                         /\ \A j \in 1..(i - 1) : OrderedBefore(rows[i], rows[j])
                                                   \/ OrderedBefore(rows[j], rows[i])
         IN  <<rows[first]>> \o
             OrderByCategoryItem(SubSeq(rows, 1, first - 1) \o
                                 SubSeq(rows, first + 1, Len(rows)))

\* The rows of the query: every row of prices joined with every group it
\* matches (a group is matched by a row at most once).
LatestPrices(tbl) ==
    OrderByCategoryItem(
        SelectSeq2(tbl, LAMBDA row : \E g \in LatestGroups(tbl) : JoinsLatest(row, g)))

\* KamisDatabase.get_latest_prices()
get_latest_prices ==
    /\ result' = LatestPrices(prices)
    /\ call' = [op |-> "get_latest_prices", arg |-> <<>>]
    /\ UNCHANGED <<dbVars, kamisVars, conn, runVars, endpoint, ca, workbook, fb>>

\* Inputs: the observation of PayloadA for kind 01 on two days, the same day
\* without a price, for another kind, and with kind_code None.
PayloadEarlier == [PayloadA EXCEPT !.date = "2025-01-14", !.price = 24000]

LatestRecords ==
    {PayloadA @@ ("kind_code" :> "01"),
     PayloadEarlier @@ ("kind_code" :> "01"),
     PayloadB @@ ("kind_code" :> "01"),
     PayloadA @@ ("kind_code" :> "02"),
     PayloadA @@ ("kind_code" :> NULL)}

LatestBatches == SeqsUpTo(LatestRecords, MaxBatch)

(***************************************************************************)
(* excel_manager.py.  workbook is the file on disk: whether it exists and, *)
(* per month sheet, the data rows as load_workbook reads them.  A cell     *)
(* holding None is NULL.  The summary sheet and the styles are left out.   *)
(***************************************************************************)
COLUMNS ==
    <<"date", "category_name", "item_code", "item_name", "kind_code",
      "kind_name", "rank", "rank_code", "unit", "price", "market_name">>

NoFile == [exists |-> FALSE, sheets |-> <<>>]

\* str(value) for the values a key cell holds: str(None) is "None".
Str(v) == IF v = NULL THEN "None" ELSE v

\* _get_month_sheet_name(date_str): "YYYY-MM" of the date; a date without
\* "-" has no parts[1] and gives the fallback sheet.
MonthSheetName(date_str) ==
    CASE date_str = "2025-01-15" -> "2025-01"
      [] date_str = "2025-02-01" -> "2025-02"
      [] OTHER -> "etc"

\* _make_key(record)
MakeKey(record) ==
    <<Str(Get(record, "date", "")), Str(Get(record, "item_code", "")),
      Str(Get(record, "kind_code", "")), Str(Get(record, "rank_code", "")),
      Str(Get(record, "market_name", ""))>>

\* The key _get_existing_keys builds from a row of a sheet.
RowKey(row) ==
    <<Str(row.date), Str(row.item_code), Str(row.kind_code), Str(row.rank_code),
      Str(row.market_name)>>

\* _get_existing_keys(ws): rows whose first cell is None are passed over.
GetExistingKeys(rows) ==
    {RowKey(rows[i]) : i \in {j \in 1..Len(rows) : rows[j].date # NULL}}

\* The values save_to_excel puts in the cells of a new row:
\* record.get(field, ""), the price through int() unless it is None.
CellValues(record) ==
    [f \in Range(COLUMNS) |-> Get(record, f, "")]

\* A file format that keeps the empty string in a cell.
SavedCell_KeepsEmptyString(v) == v

\* wb.save(filepath) followed by load_workbook(filepath), for one cell: a
\* cell whose value is the empty string is written without a value and is
\* read back as None.
SavedCell(v) == IF v = "" THEN NULL ELSE v

\* A row after save and load: the price cell holds an int or None, the
\* other cells text or None.
SavedRow(row) ==
    [f \in DOMAIN row |-> IF f = "price" THEN row[f] ELSE SavedCell(row[f])]

\* The loop over the records of one sheet: st.rows are the rows of the sheet
\* in memory, st.keys is existing_keys.
RECURSIVE AppendNew(_, _)
AppendNew(st, records) ==
    IF records = <<>>
    THEN st
    ELSE LET record == Head(records)
             key == MakeKey(record)
         IN  IF key \in st.keys
             THEN AppendNew([st EXCEPT !.dup_count = @ + 1], Tail(records))
             ELSE AppendNew([st EXCEPT !.keys = @ \cup {key},
                                       !.rows = Append(@, CellValues(record)),
                                       !.new_count = @ + 1],
                            Tail(records))

\* The rows of sheet name in the loaded workbook (a new sheet has none).
SheetRows(wb, name) ==
    IF name \in DOMAIN wb.sheets THEN wb.sheets[name] ELSE <<>>

\* monthly_data: the sheet names of the batch in order of first appearance.
SheetNamesOf(price_data) ==
    Distinct([i \in 1..Len(price_data) |->
                 MonthSheetName(Get(price_data[i], "date", ""))])

\* The sheet `name` after the loop over its records of the batch.
SheetAfter(wb, name, price_data) ==
    AppendNew([rows |-> SheetRows(wb, name),
               keys |-> GetExistingKeys(SheetRows(wb, name)),
               new_count |-> 0, dup_count |-> 0],
              SelectSeq2(price_data,
                         LAMBDA r : MonthSheetName(Get(r, "date", "")) = name))

\* The workbook on disk after save_to_excel(price_data).
SaveToExcel(wb, price_data) ==
    LET names == Range(SheetNamesOf(price_data))
        all == names \cup DOMAIN wb.sheets
    IN  [exists |-> TRUE,
         sheets |-> [name \in all |->
                        IF name \in names
                        THEN LET rows == SheetAfter(wb, name, price_data).rows
                             IN  [i \in 1..Len(rows) |-> SavedRow(rows[i])]
                        ELSE wb.sheets[name]]]

DataRows(wb) == UNION {{<<name, i>> : i \in 1..Len(wb.sheets[name])} : name \in DOMAIN wb.sheets}

\* excel_manager.save_to_excel(price_data)
save_to_excel(price_data) ==
    /\ \E wb \in {SaveToExcel(workbook, price_data)} :
        /\ Cardinality(DataRows(wb)) <= MaxRows
        /\ workbook' = wb
        /\ result' = Cardinality(DataRows(wb)) - Cardinality(DataRows(workbook))
    /\ call' = [op |-> "excel_manager.save_to_excel", arg |-> price_data]
    /\ UNCHANGED <<dbVars, kamisVars, conn, runVars, endpoint, ca, fb>>

\* Inputs: the observation of PayloadA for kind 01, the same key with other
\* values and no price, the next month, and the observation with no
\* kind_code entry (record.get gives "") and with kind_code None.
ExcelRecords ==
    {PayloadA @@ ("kind_code" :> "01"),
     PayloadB @@ ("kind_code" :> "01"),
     [PayloadA EXCEPT !.date = "2025-02-01"] @@ ("kind_code" :> "01"),
     PayloadA,
     PayloadA @@ ("kind_code" :> NULL)}

ExcelBatches == SeqsUpTo(ExcelRecords, MaxBatch)

(***************************************************************************)
(* kamis_analysis._parse_price.  A string is the sequence of its           *)
(* characters; the value returned is [nan |-> TRUE, ...] for np.nan and    *)
(* [nan |-> FALSE, value |-> n] for the float n.                           *)
(***************************************************************************)
Chars == {"0", "5", ",", "-", "x"}

Digits == {"0", "1", "2", "3", "4", "5", "6", "7", "8", "9"}

NaN == [nan |-> TRUE, value |-> 0]

Float(n) == [nan |-> FALSE, value |-> n]

DigitValue(c) == CHOOSE d \in 0..9 : ToString(d) = c

\* str(val).replace(",", "")
RECURSIVE ReplaceCommas(_)
ReplaceCommas(s) ==
    IF s = <<>> THEN <<>>
    ELSE IF Head(s) = "," THEN ReplaceCommas(Tail(s))
    ELSE <<Head(s)>> \o ReplaceCommas(Tail(s))

RECURSIVE DecimalValue(_)
DecimalValue(ds) ==
    IF ds = <<>> THEN 0
    ELSE 10 * DecimalValue(SubSeq(ds, 1, Len(ds) - 1)) + DigitValue(ds[Len(ds)])

\* float(text) for a text over Chars: an optional sign and one or more
\* digits, else ValueError (NaN here: the except clause of _parse_price).
\* float("-0") is -0.0, which equals 0.
FloatOf(text) ==
    LET body == IF text # <<>> /\ Head(text) = "-" THEN Tail(text) ELSE text
    IN  IF body = <<>> \/ \E i \in 1..Len(body) : body[i] \notin Digits
        THEN NaN
        ELSE IF Head(text) = "-" THEN Float(0 - DecimalValue(body))
        ELSE Float(DecimalValue(body))

\* _parse_price(val)
ParsePrice(val) ==
    IF val = <<>> \/ val \in {<<"-">>, <<>>, <<"0">>}
    THEN NaN
    ELSE FloatOf(ReplaceCommas(val))

PriceStrings == SeqsUpTo(Chars, MaxLen)

parse_price ==
    /\ call.op = "input"
    /\ result' = ParsePrice(call.arg)
    /\ call' = [op |-> "_parse_price", arg |-> call.arg]
    /\ UNCHANGED <<dbVars, kamisVars, conn, runVars, endpoint, ca, workbook, fb>>

(***************************************************************************)
(* kamis_analysis.detect_anomalies.  Prices are the floats _parse_price    *)
(* returns, all of integer value here; quantiles, means and deviations are *)
(* kept as exact fractions (a numerator over a stated denominator).  A     *)
(* threshold t is [num, den] for t = num / den.                            *)
(***************************************************************************)
\* df["price"] = df["dpr1"].apply(_parse_price); df.dropna(subset=["price"]):
\* the rows with a price, each with its index label and its price.
PricedRows_(tbl) ==
    SelectSeq2([i \in 1..Len(tbl) |->
                   [index |-> i, productno |-> tbl[i].productno,
                    product_name |-> tbl[i].product_name,
                    parsed |-> ParsePrice(tbl[i].dpr1)]],
               LAMBDA r : ~r.parsed.nan)

PriceOf(r) == r.parsed.value

\* Ascending sort of a sequence of numbers.
RECURSIVE SortValues(_)
SortValues(xs) ==
    IF xs = <<>>
    THEN <<>>
    ELSE LET i == CHOOSE i \in 1..Len(xs) : \A j \in 1..Len(xs) : xs[i] <= xs[j]
         IN  <<xs[i]>> \o SortValues(SubSeq(xs, 1, i - 1) \o SubSeq(xs, i + 1, Len(xs)))

\* Four times Series.quantile(quarters / 4): linear interpolation between the
\* order statistics around position (n - 1) * quarters / 4.
Quantile4(xs, quarters) ==
    LET sorted == SortValues(xs)
        pos == (Len(xs) - 1) * quarters
        lo == (pos \div 4) + 1
        r == pos % 4
    IN  IF r = 0 THEN 4 * sorted[lo]
        ELSE (4 - r) * sorted[lo] + r * sorted[lo + 1]

RECURSIVE SumValues(_)
SumValues(xs) == IF xs = <<>> THEN 0 ELSE Head(xs) + SumValues(Tail(xs))

\* The IQR method with the bounds themselves counted as outside.
IqrOutliers_NonStrict(group, threshold) ==
    LET prices_ == [i \in 1..Len(group) |-> PriceOf(group[i])]
        q1 == Quantile4(prices_, 1)
        q3 == Quantile4(prices_, 3)
        iqr == q3 - q1
        scale == 4 * threshold.den
        lower == threshold.den * q1 - threshold.num * iqr
        upper == threshold.den * q3 + threshold.num * iqr
        flagged == SelectSeq2(group, LAMBDA r : PriceOf(r) * scale <= lower
                                                \/ PriceOf(r) * scale >= upper)
    IN  [i \in 1..Len(flagged) |->
            [index |-> flagged[i].index, productno |-> flagged[i].productno,
             price |-> PriceOf(flagged[i]),
             anomaly_type |-> IF PriceOf(flagged[i]) * scale <= lower
                              THEN "low" ELSE "high",
             lower_bound |-> [num |-> lower, den |-> scale],
             upper_bound |-> [num |-> upper, den |-> scale]]]

\* The outliers of one group by the IQR method.  lower and upper are the
\* bounds times 4 * threshold.den.
IqrOutliers(group, threshold) ==
    LET prices_ == [i \in 1..Len(group) |-> PriceOf(group[i])]
        q1 == Quantile4(prices_, 1)
        q3 == Quantile4(prices_, 3)
        iqr == q3 - q1
        scale == 4 * threshold.den
        lower == threshold.den * q1 - threshold.num * iqr
        upper == threshold.den * q3 + threshold.num * iqr
        flagged == SelectSeq2(group, LAMBDA r : PriceOf(r) * scale < lower
                                                \/ PriceOf(r) * scale > upper)
    IN  [i \in 1..Len(flagged) |->
            [index |-> flagged[i].index, productno |-> flagged[i].productno,
             price |-> PriceOf(flagged[i]),
             anomaly_type |-> IF PriceOf(flagged[i]) * scale < lower
                              THEN "low" ELSE "high",
             lower_bound |-> [num |-> lower, den |-> scale],
             upper_bound |-> [num |-> upper, den |-> scale]]]

\* Series.std() divides the squared deviations by n - 1 (ddof = 1).
ZDegrees(n) == n - 1

\* The outliers of one group by the z-score method.  With n prices of sum s,
\* dev(x) = n * x - s is n * (x - mean), and ss, the sum of dev(x)^2, is
\* n^2 * ZDegrees(n) * std^2; so |z| > t iff dev^2 * ZDegrees(n) * den^2 >
\* num^2 * ss, and std = 0 iff ss = 0.
ZscoreOutliers(group, threshold) ==
    LET n == Len(group)
        s == SumValues([i \in 1..n |-> PriceOf(group[i])])
        Dev(r) == n * PriceOf(r) - s
        ss == SumValues([i \in 1..n |-> Dev(group[i]) * Dev(group[i])])
        flagged == SelectSeq2(group,
                       LAMBDA r : Dev(r) * Dev(r) * ZDegrees(n) * threshold.den * threshold.den
                                  > threshold.num * threshold.num * ss)
    IN  IF ss = 0 THEN <<>>
        ELSE [i \in 1..Len(flagged) |->
                [index |-> flagged[i].index, productno |-> flagged[i].productno,
                 price |-> PriceOf(flagged[i]),
                 anomaly_type |-> IF Dev(flagged[i]) < 0 THEN "low" ELSE "high"]]

\* if len(prices) < 3: continue
MinGroupSize == 3

\* The loop body without the test of the group's size.
GroupOutliers_NoSizeCheck(group, method, threshold) ==
    IF method = "iqr" THEN IqrOutliers(group, threshold)
    ELSE IF method = "zscore" THEN ZscoreOutliers(group, threshold)
    ELSE <<>>

\* The body of the loop over the groups for one group.
GroupOutliers(group, method, threshold) ==
    IF Len(group) < MinGroupSize THEN <<>>
    ELSE IF method = "iqr" THEN IqrOutliers(group, threshold)
    ELSE IF method = "zscore" THEN ZscoreOutliers(group, threshold)
    ELSE <<>>

\* groupby(["productno", "product_name"]) visits the groups in key order.
ProductOrder == <<"P1", "P2">>

\* result.sort_values("price", ascending=False); rows of equal price keep
\* their order.
RECURSIVE SortByPriceDesc(_)
SortByPriceDesc(rows) ==
    IF rows = <<>>
    THEN <<>>
    ELSE LET i == CHOOSE i \in 1..Len(rows) :
                     /\ \A j \in 1..Len(rows) : rows[j].price <= rows[i].price
                     /\ \A j \in 1..(i - 1) : rows[j].price < rows[i].price
         IN  <<rows[i]>> \o
             SortByPriceDesc(SubSeq(rows, 1, i - 1) \o SubSeq(rows, i + 1, Len(rows)))

\* detect_anomalies(method, threshold) on the table tbl; the empty sequence
\* stands for the empty DataFrame.
DetectAnomalies(tbl, method, threshold) ==
    LET df == PricedRows_(tbl)
        Group(p) == SelectSeq2(df, LAMBDA r : r.productno = p)
    IN  SortByPriceDesc(
            Flatten([k \in 1..Len(ProductOrder) |->
                        GroupOutliers(Group(ProductOrder[k]), method, threshold)]))

detect_anomalies(method, threshold) ==
    /\ result' = DetectAnomalies(daily_prices, method, threshold)
    /\ call' = [op |-> "detect_anomalies", arg |-> method, threshold |-> threshold]
    /\ UNCHANGED <<dbVars, kamisVars, conn, runVars, endpoint, ca, workbook, fb>>

\* Inputs: tables of up to MaxObs daily rows, one per day, of product P1
\* priced "10", "100" or "-" and of product P2 priced "10".
AnalysisQuotes ==
    {<<"P1", <<"1", "0">>>>, <<"P1", <<"1", "0", "0">>>>, <<"P1", <<"-">>>>,
     <<"P2", <<"1", "0">>>>}

AnalysisTables ==
    {[i \in 1..Len(qs) |->
         [BindDaily(DailyRow(qs[i][1], qs[i][2]))
             EXCEPT !.lastest_day = "2025-01-0" \o ToString(i)]]
     : qs \in SeqsUpTo(AnalysisQuotes, MaxObs)}

\* threshold=1.5 of the IQR call, threshold=2.0 of the z-score call, and 0.5,
\* a threshold a caller may pass.
Thresholds == {[num |-> 3, den |-> 2], [num |-> 2, den |-> 1], [num |-> 1, den |-> 2]}

(***************************************************************************)
(* kamis_analysis.analyze_yearly_trend.  price_avg = (max + min) / 2 is    *)
(* kept doubled (avg2 = max + min), yoy_change in tenths of a percent.     *)
(***************************************************************************)
Years == [i \in 1..MaxYears |-> "202" \o ToString(i)]

YearRank(yyyy) == CHOOSE i \in 1..MaxYears : Years[i] = yyyy

ProductRank(p) == CHOOSE k \in 1..Len(ProductOrder) : ProductOrder[k] = p

\* df.sort_values(["productno", "yyyy"]) of rows that differ in that pair.
RECURSIVE SortYearly(_)
SortYearly(rows) ==
    IF rows = <<>>
    THEN <<>>
    ELSE LET Before(a, b) ==
                 \/ ProductRank(a.productno) < ProductRank(b.productno)
                 \/ /\ a.productno = b.productno
                    /\ YearRank(a.yyyy) <= YearRank(b.yyyy)
             i == CHOOSE i \in 1..Len(rows) : \A j \in 1..Len(rows) : Before(rows[i], rows[j])
         IN  <<rows[i]>> \o SortYearly(SubSeq(rows, 1, i - 1) \o SubSeq(rows, i + 1, Len(rows)))

\* (price_max + price_min) / 2, doubled; NaN when either price is NaN.
PriceAvg2(row) ==
    LET price_max == ParsePrice(row.yearly_max)
        price_min == ParsePrice(row.yearly_min)
    IN  IF price_max.nan \/ price_min.nan THEN NaN
        ELSE Float(price_max.value + price_min.value)

\* round() of num / den to the nearest integer, ties to the even one (den > 0).
RoundHalfEven(num, den) ==
    LET q == num \div den
        r == num % den
    IN  IF 2 * r < den THEN q
        ELSE IF 2 * r > den THEN q + 1
        ELSE IF q % 2 = 0 THEN q ELSE q + 1

\* ((price_avg - prev_avg) / prev_avg * 100).round(1), in tenths.
YoyChange(avg, prev) ==
    IF avg.nan \/ prev.nan THEN NaN
    ELSE Float(RoundHalfEven(1000 * (avg.value - prev.value), prev.value))

\* groupby("productno")["price_avg"].shift(1) at position i of the sorted rows.
PrevAvg(df, i) ==
    IF i > 1 /\ df[i - 1].productno = df[i].productno
    THEN PriceAvg2(df[i - 1])
    ELSE NaN

\* calc_trend with the two ends of the band counted as a trend.
CalcTrend_Inclusive(group) ==
    LET valid == SelectSeq2(group, LAMBDA r : ~PriceAvg2(r).nan)
        first == PriceAvg2(valid[1]).value
        last == PriceAvg2(valid[Len(valid)]).value
    IN  IF Len(valid) < 2 THEN "insufficient"
        ELSE IF 10 * last >= 11 * first THEN "up"
        ELSE IF 10 * last <= 9 * first THEN "down"
        ELSE "flat"

\* calc_trend(group): "insufficient", "up", "down" and "flat" stand for the
\* four labels of the source.  last > first * 1.1 is 10 * last > 11 * first.
CalcTrend(group) ==
    LET valid == SelectSeq2(group, LAMBDA r : ~PriceAvg2(r).nan)
        first == PriceAvg2(valid[1]).value
        last == PriceAvg2(valid[Len(valid)]).value
    IN  IF Len(valid) < 2 THEN "insufficient"
        ELSE IF 10 * last > 11 * first THEN "up"
        ELSE IF 10 * last < 9 * first THEN "down"
        ELSE "flat"

\* analyze_yearly_trend() on the table tbl.
AnalyzeYearlyTrend(tbl) ==
    LET df == SortYearly(tbl)
        Group(p) == SelectSeq2(df, LAMBDA r : r.productno = p)
    IN  [i \in 1..Len(df) |->
            [productno |-> df[i].productno, yyyy |-> df[i].yyyy,
             price_avg |-> PriceAvg2(df[i]),
             prev_avg |-> PrevAvg(df, i),
             yoy_change |-> YoyChange(PriceAvg2(df[i]), PrevAvg(df, i)),
             trend |-> CalcTrend(Group(df[i].productno))]]

analyze_yearly_trend ==
    /\ result' = AnalyzeYearlyTrend(yearly_prices)
    /\ call' = [op |-> "analyze_yearly_trend", arg |-> <<>>]
    /\ UNCHANGED <<dbVars, kamisVars, conn, runVars, endpoint, ca, workbook, fb>>

\* Inputs: for product P1 any of the years, each with one of the quotes
\* (yearly_max, yearly_min) below, stored latest year first; before them
\* possibly one row of product P2.
YearQuotes ==
    {<<<<"1", "0", "0">>, <<"1", "0", "0">>>>, <<<<"1", "1", "0">>, <<"1", "1", "0">>>>,
     <<<<"9", "0">>, <<"9", "0">>>>, <<<<"8", "0">>, <<"8", "0">>>>,
     <<<<"1", "5", "0">>, <<"1", "0", "0">>>>,
     <<<<"-">>, <<"-">>>>, <<<<"1", "0", "0">>, <<"-">>>>}

Absent == <<>>

YearlyOf(p, i, q) ==
    IF q = Absent THEN <<>>
    ELSE <<[productno |-> p, yyyy |-> Years[i], yearly_max |-> q[1], yearly_min |-> q[2]]>>

YearlyTables ==
    {other \o Flatten([k \in 1..MaxYears |-> YearlyOf("P1", MaxYears + 1 - k, qs[MaxYears + 1 - k])])
     : qs \in [1..MaxYears -> YearQuotes \cup {Absent}],
       other \in {<<>>, YearlyOf("P2", 1, <<<<"1", "0", "0">>, <<"1", "0", "0">>>>)}}

(***************************************************************************)
(* kamis_analysis.analyze_seasonal_pattern: the monthly_avg and            *)
(* seasonal_summary frames of the returned dict (peak_low, computed from   *)
(* monthly_avg, carries no season).  A yyyymm is the sequence of its       *)
(* characters; a month is an int or, when the column could not be          *)
(* converted, the text it was.                                             *)
(***************************************************************************)
IntMonth(n) == [isint |-> TRUE, value |-> n, text |-> <<>>]

StrMonth(t) == [isint |-> FALSE, value |-> 0, text |-> t]

\* yyyymm[-2:]
Last2(text) == IF Len(text) <= 2 THEN text ELSE SubSeq(text, Len(text) - 1, Len(text))

\* int(text) succeeds on a non-empty run of digits.
IsInt(text) == text # <<>> /\ \A i \in 1..Len(text) : text[i] \in Digits

\* df["yyyymm"].str[-2:].astype(int, errors="ignore"): the column of ints, or
\* the column as it was when one of its values is no int.
MonthColumn(tbl) ==
    IF \A i \in 1..Len(tbl) : IsInt(Last2(tbl[i].yyyymm))
    THEN [i \in 1..Len(tbl) |-> IntMonth(DecimalValue(Last2(tbl[i].yyyymm)))]
    ELSE [i \in 1..Len(tbl) |-> StrMonth(Last2(tbl[i].yyyymm))]

\* A mapping that starts every season one month late.
to_season_Shifted(m) ==
    IF m.isint /\ m.value \in {4, 5, 6} THEN "spring"
    ELSE IF m.isint /\ m.value \in {7, 8, 9} THEN "summer"
    ELSE IF m.isint /\ m.value \in {10, 11, 12} THEN "autumn"
    ELSE "winter"

\* to_season(m); "spring", "summer", "autumn" and "winter" stand for the four
\* labels of the source.  A text is in none of the tuples of ints.
to_season(m) ==
    IF m.isint /\ m.value \in {3, 4, 5} THEN "spring"
    ELSE IF m.isint /\ m.value \in {6, 7, 8} THEN "summer"
    ELSE IF m.isint /\ m.value \in {9, 10, 11} THEN "autumn"
    ELSE "winter"

\* The order of the group keys: ints by value, two-character texts as their
\* digits read, the empty text first.
MonthRank(m) ==
    IF m.isint THEN m.value
    ELSE IF IsInt(m.text) THEN DecimalValue(m.text) ELSE 0 - 1

\* The labels in the order groupby sorts the source's labels.
SeasonOrder == <<"autumn", "winter", "spring", "summer">>

\* The elements of S by ascending rank, rank a function on S.
RECURSIVE SetToSeq(_, _)
SetToSeq(S, rank) ==
    IF S = {} THEN <<>>
    ELSE LET x == CHOOSE x \in S : \A y \in S : rank[x] <= rank[y]
         IN  <<x>> \o SetToSeq(S \ {x}, rank)

SetMax(S) == IF S = {} THEN NaN ELSE Float(CHOOSE x \in S : \A y \in S : y <= x)

SetMin(S) == IF S = {} THEN NaN ELSE Float(CHOOSE x \in S : \A y \in S : x <= y)

\* mean(...).round(0) of the values xs over the divisor den each.
RoundedMean(xs, den) ==
    IF xs = <<>> THEN NaN ELSE Float(RoundHalfEven(SumValues(xs), den * Len(xs)))

\* monthly_avg with its season column.
MonthlyAvg(tbl) ==
    LET month == MonthColumn(tbl)
        keys == {<<tbl[i].productno, month[i]>> : i \in 1..Len(tbl)}
        Members(k) == {i \in 1..Len(tbl) : <<tbl[i].productno, month[i]>> = k}
        Max(i) == ParsePrice(tbl[i].monthly_max)
        Min(i) == ParsePrice(tbl[i].monthly_min)
        Avg2(k) == LET ix == SetToSeq({i \in Members(k) : ~Max(i).nan /\ ~Min(i).nan},
                                      [i \in 1..Len(tbl) |-> i])
                   IN  [n \in 1..Len(ix) |-> Max(ix[n]).value + Min(ix[n]).value]
        ordered == SetToSeq(keys, [k \in keys |-> 100 * ProductRank(k[1]) + MonthRank(k[2])])
    IN  [n \in 1..Len(ordered) |->
            [productno |-> ordered[n][1], month |-> ordered[n][2],
             avg_price |-> RoundedMean(Avg2(ordered[n]), 2),
             max_price |-> SetMax({Max(i).value : i \in {j \in Members(ordered[n]) : ~Max(j).nan}}),
             min_price |-> SetMin({Min(i).value : i \in {j \in Members(ordered[n]) : ~Min(j).nan}}),
             data_count |-> Len(Avg2(ordered[n])),
             season |-> to_season(ordered[n][2])]]

\* seasonal_summary: monthly_avg grouped by item and season.
SeasonalSummary(monthly_avg) ==
    LET Members(p, season) ==
            SelectSeq2(monthly_avg, LAMBDA r : r.productno = p /\ r.season = season)
        Valid(rows, f) == {rows[i][f].value : i \in {j \in 1..Len(rows) : ~rows[j][f].nan}}
        Row(p, season) ==
            LET rows == Members(p, season)
                avgs == SelectSeq2(rows, LAMBDA r : ~r.avg_price.nan)
            IN  IF rows = <<>> THEN <<>>
                ELSE <<[productno |-> p, season |-> season,
                        season_avg |-> RoundedMean([i \in 1..Len(avgs) |-> avgs[i].avg_price.value], 1),
                        season_max |-> SetMax(Valid(rows, "max_price")),
                        season_min |-> SetMin(Valid(rows, "min_price"))]>>
    IN  Flatten([k \in 1..Len(ProductOrder) |->
                    Flatten([n \in 1..Len(SeasonOrder) |-> Row(ProductOrder[k], SeasonOrder[n])])])

analyze_seasonal_pattern ==
    /\ result' = [monthly_avg |-> MonthlyAvg(monthly_prices),
                  seasonal_summary |-> SeasonalSummary(MonthlyAvg(monthly_prices))]
    /\ call' = [op |-> "analyze_seasonal_pattern", arg |-> <<>>]
    /\ UNCHANGED <<dbVars, kamisVars, conn, runVars, endpoint, ca, workbook, fb>>

\* Inputs: up to MaxMonths rows of product P1 with different yyyymm: a month
\* of 2025, July 2024, or the empty yyyymm get_monthly_price_trend stores
\* for an item without year or month.
TwoDigits(n) == IF n < 10 THEN <<"0", ToString(n)>> ELSE <<"1", ToString(n - 10)>>

MonthlyPoints ==
    {[productno |-> "P1", yyyymm |-> <<"2", "0", "2", "5">> \o TwoDigits(n),
      monthly_max |-> <<"1", "0">>, monthly_min |-> <<"1", "0">>] : n \in 1..12}
    \cup {[productno |-> "P1", yyyymm |-> <<"2", "0", "2", "4", "0", "7">>,
           monthly_max |-> <<"1", "0", "0">>, monthly_min |-> <<"1", "0">>],
          [productno |-> "P1", yyyymm |-> <<>>,
           monthly_max |-> <<"1", "0">>, monthly_min |-> <<"-">>]}

MonthlyTables ==
    {tbl \in SeqsUpTo(MonthlyPoints, MaxMonths) :
        \A i, j \in 1..Len(tbl) : i # j => tbl[i].yyyymm # tbl[j].yyyymm}

(***************************************************************************)
(* scraper.fetch_bids, one loop iteration at a time, against a provider    *)
(* that answers each request as it likes but reports one totalCount.       *)
(* requested and answers record the page numbers sent and the answers      *)
(* received.                                                               *)
(***************************************************************************)
NoFetch ==
    [pc |-> "idle", total |-> 0, page |-> 0, all_items |-> <<>>,
     requested |-> <<>>, answers |-> <<>>]

\* The items of page `page` when it holds k of them.
PageItems(page, k) == [n \in 1..k |-> [page |-> page, n |-> n]]

\* What the provider may answer to the request for page `page`.
BidAnswers(page, total) ==
    {NoResponse, HttpError("500"), KamisXml("0000", <<>>),
     BidsJson("99", PageItems(page, 1), total), BidsJson("00", <<>>, total)}
    \cup {BidsJson("00", PageItems(page, k), total) : k \in 1..MaxPage}

\* A loop body that goes on until the items outnumber totalCount.
FetchBidsPage_StrictTotal(r, all_items) ==
    IF RequestFailed(r) \/ r.format # "json" \/ r.resultCode # "00" \/ r.items = <<>>
    THEN [stop |-> TRUE, all_items |-> all_items]
    ELSE [stop |-> Len(all_items \o r.items) > r.totalCount,
          all_items |-> all_items \o r.items]

\* One pass through the body of `while True` with the answer r: whether it
\* breaks, and all_items after it.
FetchBidsPage(r, all_items) ==
    IF RequestFailed(r) \/ r.format # "json" \/ r.resultCode # "00" \/ r.items = <<>>
    THEN [stop |-> TRUE, all_items |-> all_items]
    ELSE [stop |-> Len(all_items \o r.items) >= r.totalCount,
          all_items |-> all_items \o r.items]

\* fetch_bids is called: all_items = [], page = 1.
fb_call ==
    /\ fb.pc = "idle"
    /\ fb' = [fb EXCEPT !.pc = "loop", !.page = 1, !.all_items = <<>>]
    /\ call' = [op |-> "fetch_bids", arg |-> <<>>]
    /\ UNCHANGED <<dbVars, kamisVars, conn, runVars, endpoint, ca, workbook, result>>

\* One iteration: the request for fb.page is answered r; the loop breaks and
\* fetch_bids returns all_items, or page += 1.
fb_page(r) ==
    /\ fb.pc = "loop"
    /\ \E x \in {FetchBidsPage(r, fb.all_items)} :
        /\ fb' = [fb EXCEPT !.pc = IF x.stop THEN "returned" ELSE "loop",
                            !.page = IF x.stop THEN @ ELSE @ + 1,
                            !.all_items = x.all_items,
                            !.requested = Append(@, fb.page),
                            !.answers = Append(@, r)]
        /\ result' = IF x.stop THEN x.all_items ELSE result
    /\ UNCHANGED <<dbVars, kamisVars, conn, runVars, endpoint, ca, workbook, call>>

(***************************************************************************)
(* Specification of the UPSERT store.                                      *)
(***************************************************************************)
Init ==
    /\ prices = <<>>
    /\ collection_log = <<>>
    /\ result = [total |-> 0, inserted |-> 0, updated |-> 0, errors |-> 0]
    /\ call = [op |-> "init", arg |-> <<>>]
    /\ daily_prices = <<>>
    /\ monthly_prices = <<>>
    /\ yearly_prices = <<>>
    /\ conn = Closed
    /\ rc_pc = "idle"
    /\ data_dict = None
    /\ excel_file = "absent"
    /\ endpoint = [script |-> <<>>, next |-> 1]
    /\ ca = NoRun
    /\ workbook = NoFile
    /\ fb = NoFetch

Next == \E price_data \in PriceBatches : save_prices(price_data)

Spec == Init /\ [][Next]_vars

\* The UPSERT store written with priced and unpriced records of two keys.
NextRepriced == \E price_data \in RepricedBatches : save_prices(price_data)

SpecRepriced == Init /\ [][NextRepriced]_vars

(***************************************************************************)
(* Specifications of the insert-or-ignore store (kamis_database.py).       *)
(***************************************************************************)
NextDaily ==
    \/ get_connection
    \/ close
    \/ \E df \in DailyFrames, own \in BOOLEAN : save_daily(df, own)

SpecDaily == Init /\ [][NextDaily]_vars

NextTrend ==
    \/ \E df \in MonthlyFrames : save_monthly(df, TRUE)
    \/ \E df \in YearlyFrames : save_yearly(df, TRUE)

SpecTrend == Init /\ [][NextTrend]_vars

(***************************************************************************)
(* Specification of the UPSERT store with its latest-price query.          *)
(***************************************************************************)
NextLatest ==
    \/ \E price_data \in LatestBatches : save_prices(price_data)
    \/ get_latest_prices

SpecLatest == Init /\ [][NextLatest]_vars

(***************************************************************************)
(* Specification of the fetch functions against a scripted remote API.     *)
(***************************************************************************)
InitHttp ==
    /\ prices = <<>>
    /\ collection_log = <<>>
    /\ result = <<>>
    /\ call = [op |-> "init", arg |-> <<>>]
    /\ daily_prices = <<>>
    /\ monthly_prices = <<>>
    /\ yearly_prices = <<>>
    /\ conn = Closed
    /\ rc_pc = "idle"
    /\ data_dict = None
    /\ excel_file = "absent"
    /\ \E script \in Scripts : endpoint = [script |-> script, next |-> 1]
    /\ ca = NoRun
    /\ workbook = NoFile
    /\ fb = NoFetch

NextHttp ==
    \/ get_daily_sales_list
    \/ \E p \in Products : get_monthly_price_trend(p)
    \/ \E p \in Products : get_yearly_price_trend(p)
    \/ fetch_bids

SpecHttp == InitHttp /\ [][NextHttp]_vars

(***************************************************************************)
(* Specification of _parse_price over all strings of up to MaxLen          *)
(* characters.                                                             *)
(***************************************************************************)
InitParse ==
    /\ prices = <<>>
    /\ collection_log = <<>>
    /\ result = NaN
    /\ \E s \in PriceStrings : call = [op |-> "input", arg |-> s]
    /\ daily_prices = <<>>
    /\ monthly_prices = <<>>
    /\ yearly_prices = <<>>
    /\ conn = Closed
    /\ rc_pc = "idle"
    /\ data_dict = None
    /\ excel_file = "absent"
    /\ endpoint = [script |-> <<>>, next |-> 1]
    /\ ca = NoRun
    /\ workbook = NoFile
    /\ fb = NoFetch

NextParse == parse_price

SpecParse == InitParse /\ [][NextParse]_vars

(***************************************************************************)
(* Specification of detect_anomalies over stored daily tables.             *)
(***************************************************************************)
InitAnomaly ==
    /\ prices = <<>>
    /\ collection_log = <<>>
    /\ result = <<>>
    /\ call = [op |-> "init", arg |-> <<>>]
    /\ daily_prices \in AnalysisTables
    /\ monthly_prices = <<>>
    /\ yearly_prices = <<>>
    /\ conn = Closed
    /\ rc_pc = "idle"
    /\ data_dict = None
    /\ excel_file = "absent"
    /\ endpoint = [script |-> <<>>, next |-> 1]
    /\ ca = NoRun
    /\ workbook = NoFile
    /\ fb = NoFetch

NextAnomaly ==
    \E method \in {"iqr", "zscore"}, threshold \in Thresholds :
        detect_anomalies(method, threshold)

SpecAnomaly == InitAnomaly /\ [][NextAnomaly]_vars

(***************************************************************************)
(* Specification of analyze_yearly_trend over stored yearly tables.        *)
(***************************************************************************)
InitYearly ==
    /\ prices = <<>>
    /\ collection_log = <<>>
    /\ result = <<>>
    /\ call = [op |-> "init", arg |-> <<>>]
    /\ daily_prices = <<>>
    /\ monthly_prices = <<>>
    /\ yearly_prices \in YearlyTables
    /\ conn = Closed
    /\ rc_pc = "idle"
    /\ data_dict = None
    /\ excel_file = "absent"
    /\ endpoint = [script |-> <<>>, next |-> 1]
    /\ ca = NoRun
    /\ workbook = NoFile
    /\ fb = NoFetch

NextYearly == analyze_yearly_trend

SpecYearly == InitYearly /\ [][NextYearly]_vars

(***************************************************************************)
(* Specification of analyze_seasonal_pattern over stored monthly tables.   *)
(***************************************************************************)
InitSeasonal ==
    /\ prices = <<>>
    /\ collection_log = <<>>
    /\ result = <<>>
    /\ call = [op |-> "init", arg |-> <<>>]
    /\ daily_prices = <<>>
    /\ monthly_prices \in MonthlyTables
    /\ yearly_prices = <<>>
    /\ conn = Closed
    /\ rc_pc = "idle"
    /\ data_dict = None
    /\ excel_file = "absent"
    /\ endpoint = [script |-> <<>>, next |-> 1]
    /\ ca = NoRun
    /\ workbook = NoFile
    /\ fb = NoFetch

NextSeasonal == analyze_seasonal_pattern

SpecSeasonal == InitSeasonal /\ [][NextSeasonal]_vars

(***************************************************************************)
(* Specification of the three KAMIS calls against answers of every result  *)
(* code.                                                                   *)
(***************************************************************************)
InitCodes ==
    /\ prices = <<>>
    /\ collection_log = <<>>
    /\ result = <<>>
    /\ call = [op |-> "init", arg |-> <<>>]
    /\ daily_prices = <<>>
    /\ monthly_prices = <<>>
    /\ yearly_prices = <<>>
    /\ conn = Closed
    /\ rc_pc = "idle"
    /\ data_dict = None
    /\ excel_file = "absent"
    /\ \E script \in CodedScripts : endpoint = [script |-> script, next |-> 1]
    /\ ca = NoRun
    /\ workbook = NoFile
    /\ fb = NoFetch

NextCodes ==
    \/ get_daily_sales_list
    \/ \E p \in Products : get_monthly_price_trend(p)
    \/ \E p \in Products : get_yearly_price_trend(p)

SpecCodes == InitCodes /\ [][NextCodes]_vars

(***************************************************************************)
(* Specifications of fetch_bids against providers of every totalCount up   *)
(* to MaxTotal; in SpecBidsFair the loop, once entered, keeps running      *)
(* (each request ends within its timeout).                                 *)
(***************************************************************************)
InitBids ==
    /\ prices = <<>>
    /\ collection_log = <<>>
    /\ result = <<>>
    /\ call = [op |-> "init", arg |-> <<>>]
    /\ daily_prices = <<>>
    /\ monthly_prices = <<>>
    /\ yearly_prices = <<>>
    /\ conn = Closed
    /\ rc_pc = "idle"
    /\ data_dict = None
    /\ excel_file = "absent"
    /\ endpoint = [script |-> <<>>, next |-> 1]
    /\ ca = NoRun
    /\ workbook = NoFile
    /\ \E total \in 0..MaxTotal : fb = [NoFetch EXCEPT !.total = total]

NextBids ==
    \/ fb_call
    \/ \E r \in BidAnswers(fb.page, fb.total) : fb_page(r)

SpecBids == InitBids /\ [][NextBids]_vars

SpecBidsFair == SpecBids /\ WF_vars(NextBids)

(***************************************************************************)
(* Specification of run_collect.                                           *)
(***************************************************************************)
NextRun ==
    \/ rc_collect
    \/ rc_save_all
    \/ rc_save_to_excel

SpecRun == Init /\ [][NextRun]_vars

(***************************************************************************)
(* Specification of the cumulative workbook (excel_manager.py).            *)
(***************************************************************************)
NextExcel == \E price_data \in ExcelBatches : save_to_excel(price_data)

SpecExcel == Init /\ [][NextExcel]_vars

(***************************************************************************)
(* Specification of run_collect with collect_all_data step by step and its *)
(* worker threads.                                                         *)
(***************************************************************************)
NextCollect ==
    \/ ca_discover
    \/ \E k \in Pools : ca_submit(k)
    \/ \E k \in Pools : ca_submitted(k)
    \/ \E k \in Pools, i \in 1..Cardinality(Products) : task_request(k, i)
    \/ \E k \in Pools, i \in 1..Cardinality(Products) : task_return(k, i)
    \/ \E k \in Pools : ca_as_completed(k)
    \/ \E k \in Pools : ca_pool_exit(k)
    \/ ca_return
    \/ rc_save_all
    \/ rc_save_to_excel

SpecCollect == Init /\ [][NextCollect]_vars

(***************************************************************************)
(* Properties of the UPSERT store (db_manager.py).                         *)
(***************************************************************************)
KeyOf(row) == [c \in KeyColumns |-> row[c]]

\* The record is accepted by the table (no constraint failure).
Written(record) ==
    /\ Get(record, "date", "") # NULL
    /\ Get(record, "item_code", "") # NULL
    /\ Get(record, "item_name", "") # NULL

\* C1: no two rows of prices share the 5-tuple
\* (date, item_code, kind_code, rank_code, market_name).
C1_UniqueKey ==
    \A i, j \in 1..Len(prices) :
        i # j => KeyOf(prices[i]) # KeyOf(prices[j])

\* C2: save_prices([r]) followed by save_prices([r]) leaves the row count of
\* prices after the second call equal to the count after the first.
C2_UpsertIdempotent ==
    [][(/\ call.op = "save_prices" /\ call'.op = "save_prices"
        /\ Len(call.arg) = 1 /\ call'.arg = call.arg)
       => Len(prices') = Len(prices)]_vars

\* C3: writing a record whose key is already stored keeps the stored row's
\* key fields, gives it the record's category_name, item_name, kind_name,
\* rank, unit and price, and leaves every other row (and every other column)
\* as it was.
C3_UpdateFrame ==
    [][\A r \in PriceRecords :
        (/\ call'.op = "save_prices" /\ call'.arg = <<r>>
         /\ Written(r)
         /\ \E i \in 1..Len(prices) : KeyOf(prices[i]) = KeyOf(BindPrice(r)))
        => /\ Len(prices') = Len(prices)
           /\ \A i \in 1..Len(prices) :
                IF KeyOf(prices[i]) = KeyOf(BindPrice(r))
                THEN /\ KeyOf(prices'[i]) = KeyOf(prices[i])
                     /\ prices'[i].category_code = prices[i].category_code
                     /\ \A c \in {"category_name", "item_name", "kind_name",
                                  "rank", "unit", "price"} :
                            prices'[i][c] = BindPrice(r)[c]
                ELSE prices'[i] = prices[i]]_vars

\* The counts the batch should report: a written record counts as an insert
\* when its key is not among the keys stored so far, as an update otherwise.
RECURSIVE ExpectedCounts(_, _, _)
ExpectedCounts(keys, price_data, acc) ==
    IF price_data = <<>>
    THEN acc
    ELSE LET r == Head(price_data)
             k == KeyOf(BindPrice(r))
         IN  IF ~Written(r)
             THEN ExpectedCounts(keys, Tail(price_data), acc)
             ELSE IF k \in keys
             THEN ExpectedCounts(keys, Tail(price_data),
                                 [acc EXCEPT !.updated = @ + 1])
             ELSE ExpectedCounts(keys \cup {k}, Tail(price_data),
                                 [acc EXCEPT !.inserted = @ + 1])

\* C4: save_prices returns inserted = number of records whose key was not in
\* prices when the record was written, updated = number whose key was.
C4_InsertedUpdatedCounts ==
    [][call'.op = "save_prices" =>
        LET e == ExpectedCounts({KeyOf(prices[i]) : i \in 1..Len(prices)},
                                call'.arg, [inserted |-> 0, updated |-> 0])
        IN  /\ result'.inserted = e.inserted
            /\ result'.updated = e.updated]_vars

\* C5: every save_prices call (an empty batch included) appends exactly one
\* row to collection_log and leaves the earlier rows as they were; the row's
\* status is partial_error iff a record of the batch raised a storage error,
\* success otherwise.
C5_OneAuditRowPerCall ==
    [][call'.op = "save_prices" =>
        /\ Len(collection_log') = Len(collection_log) + 1
        /\ SubSeq(collection_log', 1, Len(collection_log)) = collection_log
        /\ LET row == collection_log'[Len(collection_log')]
               failed == \E i \in 1..Len(call'.arg) : ~Written(call'.arg[i])
           IN  row.status = IF failed THEN "partial_error" ELSE "success"]_vars

\* A second call whose batch mixes a failing and an accepted record, after a
\* first call that logged success.
C5_Witness ==
    /\ call.op = "save_prices"
    /\ Len(collection_log) = 2
    /\ collection_log[1].status = "success"
    /\ collection_log[2].status = "partial_error"
    /\ \E i, j \in 1..Len(call.arg) : ~Written(call.arg[i]) /\ Written(call.arg[j])

(***************************************************************************)
(* Properties of the insert-or-ignore store (kamis_database.py) and of     *)
(* run_collect.                                                            *)
(***************************************************************************)
\* C6: the step of run_collect that persists the run through save_all also
\* appends exactly one audit row.
C6_RunAppendsAuditRow ==
    [][(rc_pc = "collected" /\ rc_pc' = "saved")
       => Len(collection_log') = Len(collection_log) + 1]_vars

MonthlyKeyOf(row) == <<row.productno, row.yyyymm>>

YearlyKeyOf(row) == <<row.productno, row.yyyy>>

\* C7: a record given to save_monthly (save_yearly) whose key is already
\* stored is dropped: the table is left as it was and the record is not
\* counted in the returned number.
C7_TrendDuplicateDropped ==
    [][/\ (/\ call'.op = "save_monthly" /\ Len(call'.arg) = 1
           /\ \E i \in 1..Len(monthly_prices) :
                MonthlyKeyOf(monthly_prices[i]) = MonthlyKeyOf(BindMonthly(call'.arg[1])))
          => (monthly_prices' = monthly_prices /\ result' = 0)
       /\ (/\ call'.op = "save_yearly" /\ Len(call'.arg) = 1
           /\ \E i \in 1..Len(yearly_prices) :
                YearlyKeyOf(yearly_prices[i]) = YearlyKeyOf(BindYearly(call'.arg[1])))
          => (yearly_prices' = yearly_prices /\ result' = 0)]_vars

\* The last element of df whose key (under KeyOfRow) is k.
LastWithKey(df, KeyOfRow(_), k) ==
    df[CHOOSE i \in 1..Len(df) :
          /\ KeyOfRow(df[i]) = k
          /\ \A j \in (i + 1)..Len(df) : KeyOfRow(df[j]) # k]

\* For every record of df whose key was stored when the call began or is
\* repeated in df: afterwards the table holds exactly one row of that key,
\* with the values of the last such record; every record of df is counted.
ReplacedBy(before, after, df, Bind(_), KeyOfRow(_), count) ==
    /\ count = Len(df)
    /\ \A n \in 1..Len(df) :
         LET k == KeyOfRow(Bind(df[n]))
             BoundKey(r) == KeyOfRow(Bind(r))
         IN  (\/ \E i \in 1..Len(before) : KeyOfRow(before[i]) = k
              \/ \E j \in 1..Len(df) : j # n /\ BoundKey(df[j]) = k)
             => /\ Cardinality({i \in 1..Len(after) : KeyOfRow(after[i]) = k}) = 1
                /\ \E i \in 1..Len(after) :
                     after[i] = Bind(LastWithKey(df, BoundKey, k))

\* C7 (amended): a record given to save_monthly (save_yearly) whose key is
\* already stored replaces the stored row - the table keeps one row for the
\* key, carrying the record's max/min - and is counted in the returned number.
C7_TrendDuplicateReplaces ==
    [][/\ call'.op = "save_monthly"
          => ReplacedBy(monthly_prices, monthly_prices', call'.arg,
                        BindMonthly, MonthlyKeyOf, result')
       /\ call'.op = "save_yearly"
          => ReplacedBy(yearly_prices, yearly_prices', call'.arg,
                        BindYearly, YearlyKeyOf, result')]_vars

\* One batch gives the same month twice with different prices: the second
\* record replaced the first and both were counted.
C7_Witness ==
    /\ call.op = "save_monthly"
    /\ Len(call.arg) = 2
    /\ MonthlyKeyOf(call.arg[1]) = MonthlyKeyOf(call.arg[2])
    /\ call.arg[1] # call.arg[2]
    /\ monthly_prices = <<BindMonthly(call.arg[2])>>
    /\ result = 2

\* C8: save_daily of an already stored record adds no row, and the number
\* save_daily returns is the number of rows the call added to daily_prices.
C8_DailyInsertedCount ==
    [][call'.op = "save_daily"
       => result' = Len(daily_prices') - Len(daily_prices)]_vars

\* C9: monthly_prices has at most one row per (productno, yyyymm) and
\* yearly_prices at most one row per (productno, yyyy).
C9_TrendKeysUnique ==
    /\ \A i, j \in 1..Len(monthly_prices) :
         i # j => MonthlyKeyOf(monthly_prices[i]) # MonthlyKeyOf(monthly_prices[j])
    /\ \A i, j \in 1..Len(yearly_prices) :
         i # j => YearlyKeyOf(yearly_prices[i]) # YearlyKeyOf(yearly_prices[j])

\* Both products are stored and the last call gave one year twice.
C9_Witness ==
    /\ call.op = "save_yearly"
    /\ Len(call.arg) = 2
    /\ YearlyKeyOf(call.arg[1]) = YearlyKeyOf(call.arg[2])
    /\ Len(yearly_prices) = 2
    /\ Len(monthly_prices) = 2

(***************************************************************************)
(* Properties of the fetch functions.                                      *)
(***************************************************************************)
FetchOps ==
    {"get_daily_sales_list", "get_monthly_price_trend", "get_yearly_price_trend",
     "fetch_bids"}

\* What the function named by c returns for the single successful response r.
DataOf(c, r) ==
    IF c.op = "get_daily_sales_list"
    THEN [i \in 1..Len(r.items) |-> DailyItem(r.items[i])]
    ELSE IF c.op = "get_monthly_price_trend"
    THEN [i \in 1..Len(r.items) |-> MonthlyItem(c.arg, r.items[i])]
    ELSE IF c.op = "get_yearly_price_trend"
    THEN [i \in 1..Len(r.items) |-> YearlyItem(c.arg, r.items[i])]
    ELSE r.items

\* The response r is a success for the function named by c.
SuccessFor(c, r) ==
    /\ r.status = "200"
    /\ r.items # <<>>
    /\ IF c.op = "fetch_bids"
       THEN r.format = "json" /\ r.resultCode = "00"
       ELSE r.format = "xml" /\ r.resultCode \in {NULL, "0000"}

\* C10: a fetch whose endpoint answers HTTP 500 to the first two attempts and
\* HTTP 200 to the third makes (up to) three attempts and returns the data of
\* the third response.
C10_RetryOnServerError ==
    (/\ call.op \in FetchOps
     /\ call.first = 1
     /\ Len(endpoint.script) = 3
     /\ endpoint.script[1].status = "500"
     /\ endpoint.script[2].status = "500"
     /\ SuccessFor(call, endpoint.script[3]))
    => /\ endpoint.next = 4
       /\ result = DataOf(call, endpoint.script[3])

\* C11: a fetch call whose request is answered HTTP 404 makes that one
\* request only and returns the empty list to its caller.
C11_ClientErrorOneAttempt ==
    (/\ call.op \in FetchOps
     /\ endpoint.script[call.first].status = "404")
    => /\ endpoint.next = call.first + 1
       /\ result = <<>>

\* The endpoint answers 404 to everything and get_daily_sales_list was
\* called on it.
C11_Witness ==
    /\ call.op = "get_daily_sales_list"
    /\ call.first = 1
    /\ Len(endpoint.script) >= 2
    /\ \A i \in 1..Len(endpoint.script) : endpoint.script[i].status = "404"
    /\ endpoint.next = 2
    /\ result = <<>>

(***************************************************************************)
(* Properties of collect_all_data and run_collect.                         *)
(***************************************************************************)
TrendRequests == endpoint.next - 2

NothingWritten ==
    /\ daily_prices = <<>>
    /\ monthly_prices = <<>>
    /\ yearly_prices = <<>>
    /\ excel_file = "absent"

Aborted == rc_pc # "idle" /\ ca.daily_data = <<>>

\* C12: once the discovery call has failed or returned no items, the run is
\* over: collect_all_data has returned None, no task was submitted, no trend
\* request was made, and nothing is written to the database or the workbook.
C12_DiscoveryFailureAborts ==
    Aborted => /\ rc_pc = "done"
               /\ data_dict = None
               /\ ca.monthly.futures = <<>>
               /\ ca.yearly.futures = <<>>
               /\ TrendRequests = 0
               /\ NothingWritten

\* The discovery request failed and the run is over.
C12_Witness ==
    /\ Aborted
    /\ endpoint.script = <<NoResponse>>
    /\ rc_pc = "done"

\* The main thread has submitted all tasks of pool k in this run.
PoolBuilt(k) ==
    /\ ca.daily_data # <<>>
    /\ IF k = "monthly"
       THEN rc_pc \notin {"idle", "submit_monthly"}
       ELSE rc_pc \notin {"idle", "submit_monthly", "await_monthly", "submit_yearly"}

\* The item identifiers of the discovered list (an <item> without productno
\* element has none).
DiscoveredIds ==
    {ca.daily_data[i].productno : i \in 1..Len(ca.daily_data)} \ {""}

TimesSubmitted(k, p) ==
    Cardinality({i \in 1..Len(ca[k].futures) : ca[k].futures[i].pno = p})

\* C13: no identifier is ever submitted twice to a pool, only discovered
\* identifiers are submitted, and once a pool's tasks are submitted every
\* discovered identifier has been submitted to it exactly once.
C13_EachProductSubmittedOnce ==
    \A k \in Pools :
        /\ \A i \in 1..Len(ca[k].futures) :
               /\ ca[k].futures[i].pno \in DiscoveredIds
               /\ TimesSubmitted(k, ca[k].futures[i].pno) = 1
        /\ PoolBuilt(k) => \A p \in DiscoveredIds : TimesSubmitted(k, p) = 1

\* The discovery response named one product twice and both pools are done.
C13_Witness ==
    /\ rc_pc = "frames"
    /\ Len(ca.daily_data) = 2
    /\ ca.daily_data[1].productno = ca.daily_data[2].productno
    /\ ca.daily_data[1].productno # ""
    /\ Len(ca.monthly.futures) = 1
    /\ Len(ca.yearly.futures) = 1

\* The main thread has left the with block of pool k.
PoolFinished(k) ==
    /\ ca.products # <<>>
    /\ IF k = "monthly"
       THEN rc_pc \notin {"idle", "submit_monthly", "await_monthly"}
       ELSE rc_pc \notin {"idle", "submit_monthly", "await_monthly",
                          "submit_yearly", "await_yearly"}

Consumed(k) == {i \in 1..Len(ca[k].futures) : ca[k].futures[i].state = "consumed"}

\* C14: `done` counts every task taken from as_completed once, failed or not;
\* when a pool is finished every submitted task has run and has been taken,
\* and done equals the number of submitted tasks.
C14_FailuresDoNotStopPool ==
    \A k \in Pools :
        /\ ca[k].done = Cardinality(Consumed(k))
        /\ PoolFinished(k) =>
              /\ Len(ca[k].futures) = Len(ca.products)
              /\ Consumed(k) = 1..Len(ca[k].futures)
              /\ ca[k].done = Len(ca[k].futures)
              /\ ca[k].done = ca[k].total

\* The monthly pool finished two tasks, the first of which failed and the
\* second of which did not; the yearly pool finished with both tasks failed.
C14_Witness ==
    /\ PoolFinished("monthly")
    /\ PoolFinished("yearly")
    /\ Len(ca.monthly.futures) = 2
    /\ ~ca.monthly.futures[1].ok
    /\ ca.monthly.futures[2].ok
    /\ ca.monthly.done = 2
    /\ \A i \in 1..2 : ~ca.yearly.futures[i].ok
    /\ ca.yearly.done = 2

\* The orders in which the tasks of S can have been taken.
Orders(S) ==
    {o \in [1..Cardinality(S) -> S] : \A i, j \in 1..Cardinality(S) : o[i] = o[j] => i = j}

\* The results of the tasks of pool k, one after the other in order o.
InOrder(k, o) == Flatten([j \in 1..Len(o) |-> ca[k].futures[o[j]].result])

\* C15: at every moment the list of a pool is the results of the tasks taken
\* so far, each whole and once, in the order they were taken; a failed task
\* contributes no record; the frames collect_all_data returns are these
\* lists.
C15_MergedResultsWhole ==
    /\ \A k \in Pools :
          /\ \E o \in Orders(Consumed(k)) : ca[k].data_all = InOrder(k, o)
          /\ \A i \in 1..Len(ca[k].futures) :
                 (ca[k].futures[i].state # "pending" /\ ~ca[k].futures[i].ok)
                 => ca[k].futures[i].result = <<>>
    /\ rc_pc \in {"collected", "saved"} =>
          /\ data_dict.monthly = ca.monthly.data_all
          /\ data_dict.yearly = ca.yearly.data_all

\* Both monthly tasks brought two records and the second task was taken
\* first; collect_all_data has returned.
C15_Witness ==
    /\ rc_pc = "collected"
    /\ Len(ca.monthly.futures) = 2
    /\ Len(data_dict.monthly) = 4
    /\ data_dict.monthly[1].productno = ca.monthly.futures[2].pno
    /\ data_dict.monthly[3].productno = ca.monthly.futures[1].pno

\* Every task of both pools has been submitted and has returned.
AllTasksCompleted ==
    \A k \in Pools :
        /\ Len(ca[k].futures) = Len(ca.products)
        /\ \A i \in 1..Len(ca[k].futures) :
               ca[k].futures[i].state \in {"finished", "consumed"}

\* C16: a step that makes a trend request is taken only after the discovery
\* call has returned its list, and a step that starts save_all or
\* save_to_excel is taken only when every task of both pools has completed.
C16_PhasesSequential ==
    [][/\ call'.op = "task_request" =>
            (rc_pc # "idle" /\ ca.daily_data # <<>> /\ endpoint.next >= 2)
       /\ call'.op \in {"save_all", "save_to_excel"} => AllTasksCompleted]_vars

\* save_all has run after two pools of two tasks each.
C16_Witness ==
    /\ rc_pc = "saved"
    /\ Len(ca.monthly.futures) = 2
    /\ Len(ca.yearly.futures) = 2
    /\ AllTasksCompleted
    /\ daily_prices # <<>>

(***************************************************************************)
(* Properties of get_latest_prices.                                        *)
(***************************************************************************)
VariantOf(row) == [c \in VariantColumns |-> row[c]]

\* The stored rows of variant v that carry a price.
PricedRows(v) ==
    {i \in 1..Len(prices) : VariantOf(prices[i]) = v /\ prices[i].price # NullPrice}

\* C17: get_latest_prices returns, for every variant with a priced row,
\* exactly one row, which is a priced row of the variant of the greatest
\* date, and returns no row of any other variant.
C17_LatestPerVariant ==
    call.op = "get_latest_prices" =>
        /\ \A v \in {VariantOf(prices[i]) : i \in 1..Len(prices)} :
              IF PricedRows(v) = {}
              THEN \A n \in 1..Len(result) : VariantOf(result[n]) # v
              ELSE /\ Cardinality({n \in 1..Len(result) : VariantOf(result[n]) = v}) = 1
                   /\ \E n \in 1..Len(result), i \in PricedRows(v) :
                         /\ result[n] = prices[i]
                         /\ \A j \in PricedRows(v) :
                               TextRank(prices[j].date) <= TextRank(prices[i].date)
        /\ \A n \in 1..Len(result) : \E i \in 1..Len(prices) : result[n] = prices[i]

(***************************************************************************)
(* Properties of save_prices under storage errors.                         *)
(***************************************************************************)
\* The records of the batch the table rejects (sqlite3.IntegrityError).
Rejected(price_data) ==
    {i \in 1..Len(price_data) : NotNullViolation(BindPrice(price_data[i]))}

\* C18: save_prices returns with errors = the number of rejected records;
\* every other record of the batch has a row of its key in the committed
\* table; the call's audit row carries the same errors value and, when a
\* record was rejected, the status partial_error.
C18_PartialErrorBatch ==
    [][call'.op = "save_prices" =>
        LET price_data == call'.arg
            failed == Cardinality(Rejected(price_data))
            row == collection_log'[Len(collection_log')]
        IN  /\ result'.errors = failed
            /\ result'.total = Len(price_data)
            /\ Len(collection_log') = Len(collection_log) + 1
            /\ row.errors = failed
            /\ failed > 0 => row.status = "partial_error"
            /\ \A i \in (1..Len(price_data)) \ Rejected(price_data) :
                   \E j \in 1..Len(prices') :
                       KeyOf(prices'[j]) = KeyOf(BindPrice(price_data[i]))]_vars

\* A batch of a rejected record followed by a good one was saved: one error,
\* the good record stored, the audit row partial_error.
C18_Witness ==
    /\ call.op = "save_prices"
    /\ Len(call.arg) = 2
    /\ Rejected(call.arg) = {1}
    /\ result.errors = 1
    /\ \E j \in 1..Len(prices) : KeyOf(prices[j]) = KeyOf(BindPrice(call.arg[2]))
    /\ collection_log[Len(collection_log)].status = "partial_error"
    /\ collection_log[Len(collection_log)].errors = 1

(***************************************************************************)
(* Properties of the cumulative workbook.                                  *)
(***************************************************************************)
\* The key (date, item_code, kind_code, rank_code, market_name) of a data
\* row of the workbook.
CellKey(wb, at) ==
    LET row == wb.sheets[at[1]][at[2]]
    IN  <<row.date, row.item_code, row.kind_code, row.rank_code, row.market_name>>

\* C19: saving the batch that was saved by the previous call appends no data
\* row, and after every save no two data rows of the workbook share their
\* key.
C19_FlatFileDedup ==
    [][call'.op = "excel_manager.save_to_excel" =>
        /\ (call.op = "excel_manager.save_to_excel" /\ call'.arg = call.arg)
              => (result' = 0 /\ workbook' = workbook)
        /\ \A a, b \in DataRows(workbook') :
              CellKey(workbook', a) = CellKey(workbook', b) => a = b]_vars

(***************************************************************************)
(* Properties of _parse_price.                                             *)
(***************************************************************************)
\* C20: _parse_price(s) is NaN exactly when s is empty, "-" or "0"; for
\* every other s the value is a non-negative integer.
C20_ParsePriceNullIff ==
    call.op = "_parse_price" =>
        /\ result.nan <=> call.arg \in {<<>>, <<"-">>, <<"0">>}
        /\ ~result.nan => result.value >= 0

(***************************************************************************)
(* Properties of detect_anomalies.                                         *)
(***************************************************************************)
\* The prices of product p in the table, in row order, "-" rows left out.
ValidPrices(p) ==
    LET rows == SelectSeq2(daily_prices,
                           LAMBDA r : r.productno = p /\ ~ParsePrice(r.dpr1).nan)
    IN  [i \in 1..Len(rows) |-> ParsePrice(rows[i].dpr1).value]

Flagged(p) == {n \in 1..Len(result) : result[n].productno = p}

\* C21: the z-score method with threshold 2.0 on the prices [10, 10, 10, 10,
\* 100] of one item flags the 100 as a high outlier.
C21_ZscoreFlagsHundred ==
    (/\ call.op = "detect_anomalies"
     /\ call.arg = "zscore"
     /\ call.threshold = [num |-> 2, den |-> 1]
     /\ SortValues(ValidPrices("P1")) = <<10, 10, 10, 10, 100>>)
    => \E n \in Flagged("P1") : result[n].price = 100 /\ result[n].anomaly_type = "high"

\* The rows of the result that report row i of the table.
ReportsOf(i) == {n \in 1..Len(result) : result[n].index = i}

\* k * 4 * (Q1 - k * IQR) and k * 4 * (Q3 + k * IQR) of the prices ps for the
\* multiplier k = t.num / t.den.
LowerBound(ps, t) == t.den * Quantile4(ps, 1) - t.num * (Quantile4(ps, 3) - Quantile4(ps, 1))

UpperBound(ps, t) == t.den * Quantile4(ps, 3) + t.num * (Quantile4(ps, 3) - Quantile4(ps, 1))

IqrCall == call.op = "detect_anomalies" /\ call.arg = "iqr"

\* C22: by the IQR method, in every item group with at least 3 valid prices,
\* an observation is reported (once) if and only if it lies strictly outside
\* [Q1 - k*IQR, Q3 + k*IQR], as low below the lower bound and as high
\* otherwise; for the prices [10, 10, 10, 10, 100] and k = 1.5 exactly the
\* observation 100 is reported, as high.
C22_IqrOutsideBounds ==
    IqrCall =>
        /\ \A i \in 1..Len(daily_prices) :
             LET p == daily_prices[i].productno
                 ps == ValidPrices(p)
                 x == ParsePrice(daily_prices[i].dpr1)
                 t == call.threshold
                 below == x.value * 4 * t.den < LowerBound(ps, t)
                 above == x.value * 4 * t.den > UpperBound(ps, t)
             IN  (Len(ps) >= 3 /\ ~x.nan) =>
                     /\ Cardinality(ReportsOf(i)) = (IF below \/ above THEN 1 ELSE 0)
                     /\ \A n \in ReportsOf(i) :
                          /\ result[n].price = x.value
                          /\ result[n].anomaly_type = (IF below THEN "low" ELSE "high")
        /\ (/\ call.threshold = [num |-> 3, den |-> 2]
            /\ SortValues(ValidPrices("P1")) = <<10, 10, 10, 10, 100>>)
           => /\ Cardinality(Flagged("P1")) = 1
              /\ \A n \in Flagged("P1") :
                   result[n].price = 100 /\ result[n].anomaly_type = "high"

C22_Witness ==
    /\ IqrCall
    /\ call.threshold = [num |-> 3, den |-> 2]
    /\ SortValues(ValidPrices("P1")) = <<10, 10, 10, 10, 100>>
    /\ \E n \in 1..Len(result) : result[n].price = 100 /\ result[n].anomaly_type = "high"

\* C27: detect_anomalies reports nothing from an item group with fewer than 3
\* valid prices, by either method, and by the z-score method nothing from a
\* group whose prices have zero standard deviation (all prices equal).
C27_SmallOrFlatGroupsSkipped ==
    call.op = "detect_anomalies" =>
        \A p \in Products :
            LET ps == ValidPrices(p)
            IN  /\ Len(ps) < 3 => Flagged(p) = {}
                /\ (call.arg = "zscore" /\ \A i, j \in 1..Len(ps) : ps[i] = ps[j])
                   => Flagged(p) = {}

\* A group of two different prices is skipped while a group of three or more
\* in the same table is reported from.
C27_Witness ==
    /\ call.op = "detect_anomalies"
    /\ call.arg = "zscore"
    /\ Len(ValidPrices("P1")) = 2
    /\ ValidPrices("P1")[1] # ValidPrices("P1")[2]
    /\ Flagged("P1") = {}
    /\ Len(ValidPrices("P2")) >= 3
    /\ Flagged("P2") = {}

(***************************************************************************)
(* Properties of analyze_yearly_trend.                                     *)
(***************************************************************************)
\* The stored rows of product p in year order.
PointsOf(p) == SortYearly(SelectSeq2(yearly_prices, LAMBDA r : r.productno = p))

ValidPoint(r) == ~ParsePrice(r.yearly_max).nan /\ ~ParsePrice(r.yearly_min).nan

\* The doubled yearly averages of p's valid points, in year order.
ValidAverages(p) ==
    LET valid == SelectSeq2(PointsOf(p), ValidPoint)
    IN  [i \in 1..Len(valid) |->
            ParsePrice(valid[i].yearly_max).value + ParsePrice(valid[i].yearly_min).value]

TrendCall == call.op = "analyze_yearly_trend"

\* C23: every output row of an item carries the trend of the item's earliest
\* and latest valid yearly averages: up when the latest is more than 10%
\* above the earliest, down when more than 10% below, flat otherwise (exactly
\* +10% and -10% included), insufficient-data with fewer than 2 valid points;
\* the averages [100, 80] are a downtrend.
C23_TrendClassification ==
    TrendCall =>
        \A n \in 1..Len(result) :
            LET avgs == ValidAverages(result[n].productno)
                first == avgs[1]
                last == avgs[Len(avgs)]
            IN  /\ result[n].trend =
                     (IF Len(avgs) < 2 THEN "insufficient"
                      ELSE IF 10 * last > 11 * first THEN "up"
                      ELSE IF 10 * last < 9 * first THEN "down"
                      ELSE "flat")
                /\ avgs = <<200, 160>> => result[n].trend = "down"

\* The averages 100 then 110, exactly +10%, reported as flat.
C23_Witness ==
    /\ TrendCall
    /\ ValidAverages("P1") = <<200, 220>>
    /\ \E n \in 1..Len(result) : result[n].productno = "P1" /\ result[n].trend = "flat"

\* The latest valid point of p before year yyyy, as a doubled average, or NaN.
PreviousValid(p, yyyy) ==
    LET earlier == SelectSeq2(PointsOf(p),
                       LAMBDA r : ValidPoint(r) /\ YearRank(r.yyyy) < YearRank(yyyy))
    IN  IF earlier = <<>> THEN NaN
        ELSE Float(ParsePrice(earlier[Len(earlier)].yearly_max).value
                   + ParsePrice(earlier[Len(earlier)].yearly_min).value)

\* C24: a yearly point whose max or min price is null or unparseable appears
\* in no output row, and the year-over-year change of every remaining year
\* is computed against the item's previous year that has a valid price.
C24_InvalidPointsDropped ==
    TrendCall =>
        /\ \A i \in 1..Len(yearly_prices) :
             ~ValidPoint(yearly_prices[i]) =>
                 ~\E n \in 1..Len(result) :
                     /\ result[n].productno = yearly_prices[i].productno
                     /\ result[n].yyyy = yearly_prices[i].yyyy
        /\ \A n \in 1..Len(result) :
             ~result[n].price_avg.nan =>
                 result[n].yoy_change =
                     YoyChange(result[n].price_avg,
                               PreviousValid(result[n].productno, result[n].yyyy))

(***************************************************************************)
(* Properties of analyze_seasonal_pattern.                                 *)
(***************************************************************************)
SeasonOf(n) ==
    IF n \in 3..5 THEN "spring"
    ELSE IF n \in 6..8 THEN "summer"
    ELSE IF n \in 9..11 THEN "autumn"
    ELSE "winter"

KamisOps == {"get_daily_sales_list", "get_monthly_price_trend", "get_yearly_price_trend"}

\* The answer carries a result code, and not the success code.
NonSuccessCode(response) ==
    /\ response.format = "xml"
    /\ response.resultCode \notin {NULL, "", "0000"}

\* C25: a daily, monthly or yearly call whose request is answered with an
\* embedded result code other than the success code returns the empty
\* sequence to its caller after that one request, whatever the code and
\* whatever items the answer carries.
C25_NonSuccessCodeEmpty ==
    (/\ call.op \in KamisOps
     /\ NonSuccessCode(endpoint.script[call.first]))
    => /\ result = <<>>
       /\ endpoint.next = call.first + 1

\* get_monthly_price_trend answered with code "001" and one item.
C25_Witness ==
    /\ call.op = "get_monthly_price_trend"
    /\ endpoint.script[call.first].resultCode = "001"
    /\ endpoint.script[call.first].items # <<>>
    /\ result = <<>>

(***************************************************************************)
(* Further properties of the UPSERT store.                                 *)
(***************************************************************************)
\* C28: in every audit row of collection_log, total_fetched = new_inserted +
\* duplicates_skipped + errors, and the four counts are non-negative.
C28_AuditRowBalanced ==
    \A i \in 1..Len(collection_log) :
        LET row == collection_log[i]
        IN  /\ row.total_fetched = row.new_inserted + row.duplicates_skipped + row.errors
            /\ row.total_fetched >= 0
            /\ row.new_inserted >= 0
            /\ row.duplicates_skipped >= 0
            /\ row.errors >= 0

\* The audit row of a batch of one stored and one rejected record, written
\* to a store that already held a row.
C28_Witness ==
    /\ call.op = "save_prices"
    /\ Len(collection_log) = 2
    /\ collection_log[2].total_fetched = 2
    /\ collection_log[2].new_inserted = 1
    /\ collection_log[2].errors = 1

\* C29: after a save_prices call, every stored row with the key of a record
\* of the batch holds the price of the last record of the batch with that
\* key, a null price included, and such a row exists.
C29_LastWriterWins ==
    [][call'.op = "save_prices" =>
        LET price_data == call'.arg
            Last(i) == ~\E j \in (i + 1)..Len(price_data) :
                           KeyOf(BindPrice(price_data[j])) = KeyOf(BindPrice(price_data[i]))
        IN  \A i \in 1..Len(price_data) :
                Last(i) =>
                    /\ \E n \in 1..Len(prices') :
                           KeyOf(prices'[n]) = KeyOf(BindPrice(price_data[i]))
                    /\ \A n \in 1..Len(prices') :
                           KeyOf(prices'[n]) = KeyOf(BindPrice(price_data[i]))
                           => prices'[n].price = BindPrice(price_data[i]).price]_vars

(***************************************************************************)
(* Properties of fetch_bids.                                               *)
(***************************************************************************)
\* The answer is a page of items: the request succeeded, the body is JSON,
\* the result code is the success code and the page is not empty.
GoodPage(r) ==
    /\ r.status = "200"
    /\ r.format = "json"
    /\ r.resultCode = "00"
    /\ r.items # <<>>

\* The items of the good pages among the first n answers, in order.
ItemsUpTo(n) ==
    Flatten([i \in 1..n |-> IF GoodPage(fb.answers[i]) THEN fb.answers[i].items ELSE <<>>])

\* The first n answers are good pages that leave the count below totalCount.
AllContinue(n) ==
    \A i \in 1..n : GoodPage(fb.answers[i]) /\ Len(ItemsUpTo(i)) < fb.total

FetchBidsSafe ==
    /\ fb.requested = [i \in 1..Len(fb.requested) |-> i]
    /\ Len(fb.answers) = Len(fb.requested)
    /\ fb.pc = "loop" => AllContinue(Len(fb.answers))
    /\ fb.pc = "returned" =>
         /\ Len(fb.answers) >= 1
         /\ AllContinue(Len(fb.answers) - 1)
         /\ ~AllContinue(Len(fb.answers))
         /\ result = ItemsUpTo(Len(fb.answers))

\* C30: fetch_bids requests pages 1, 2, 3, ... in order; it goes on only
\* after a non-empty page of a successful, parseable answer with the success
\* code that leaves the item count below totalCount, and stops at the first
\* answer that is not such; it returns the items of the good pages it
\* received, in order; and once called it returns.
C30_FetchBidsPagesAndTerminates ==
    /\ []FetchBidsSafe
    /\ (fb.pc = "loop") ~> (fb.pc = "returned")

\* Two pages were fetched and the second brought the count up to totalCount.
C30_Witness ==
    /\ fb.pc = "returned"
    /\ fb.requested = <<1, 2>>
    /\ GoodPage(fb.answers[2])
    /\ Len(result) >= fb.total
    /\ Len(result) = Len(fb.answers[1].items) + Len(fb.answers[2].items)

====
